---- MODULE Spec2Model ----
(***************************************************************************)
(* The bitboard chess engine of 2Player_chess (chess_engine.py), its       *)
(* search (chess_ai.py) and its request handlers (app.py).                 *)
(*                                                                         *)
(* A bitboard is modelled as the set of the squares whose bit is set:      *)
(* Python integers are unbounded, so no width is lost.  A Python list is   *)
(* a function on 0..len-1, a list of moves a sequence.                     *)
(***************************************************************************)
EXTENDS Integers, Sequences, FiniteSets, TLC

VARIABLES
    state,       \* the current game state (the dictionary make_move returned last)
    legal_moves, \* the list generate_moves(state) returns
    plies,       \* number of make_move calls made on top of the starting line
    prev,        \* the argument `state` of the last make_move call, as it was at the call
    prev_after,  \* the same argument object, as it reads after the call returned
    last_move,   \* the argument `move` of the last make_move call
    ai,          \* the last call of get_best_move: depth, shuffled moves, result
    session,     \* the Flask session of the one client
    request,     \* the last request the application handled
    response,    \* the response to it
    requests,    \* number of requests handled
    attack       \* the last call of an attack function: name, arguments, result

vars == <<state, legal_moves, plies, prev, prev_after, last_move, ai,
          session, request, response, requests, attack>>

\* ------------------------------------------------------------------------
\* Bounds of the model
\* ------------------------------------------------------------------------
\* make_move calls played on top of a starting line
MaxPlies == 1

\* largest search depth get_best_move is called with
MaxDepth == 2

\* requests handled on top of a stored session
MaxRequests == 1

\* longest move list /ai_move is followed through every shuffle of
MaxShuffle == 4

\* deepest nesting of calls that is followed
MaxNesting == 5

\* most squares of BlockerSquares set in an occupancy the sliding attacks
\* are called with
MaxBlockers == 2

\* ------------------------------------------------------------------------
\* Constants and definitions (chess_engine.py 17-53)
\* ------------------------------------------------------------------------
Squares == 0..63

A1 == 0
B1 == 1
C1 == 2
D1 == 3
E1 == 4
F1 == 5
G1 == 6
H1 == 7
A8 == 56
B8 == 57
C8 == 58
D8 == 59
E8 == 60
F8 == 61
G8 == 62
H8 == 63

P == 0
N == 1
B == 2
R == 3
Q == 4
K == 5
p == 6
n == 7
b == 8
r == 9
q == 10
k == 11
EMPTY == -1

WHITE == 0
BLACK == 1
BOTH == 2

\* Python's None, as the value of move['promote'] and state['selected_square'].
None == -2

\* A move without the key 'castle' carries NoCastle.
NoCastle == ""

\* Python's list indexing: a negative index counts from the end of the list.
PyIndex(i, len) == IF i < 0 THEN i + len ELSE i

\* ------------------------------------------------------------------------
\* Bitboard helpers
\* ------------------------------------------------------------------------
get_bit(bitboard, square) == square \in bitboard

set_bit(bitboard, square) == bitboard \cup {square}

\* A variant that leaves the bit set.
pop_bit_keeps(bitboard, square) == bitboard

pop_bit(bitboard, square) == bitboard \ {square}

count_bits(bitboard) == Cardinality(bitboard)

\* (bb & -bb).bit_length() - 1: the index of the least significant set bit.
LS1B(bitboard) == CHOOSE s \in bitboard : \A t \in bitboard : s <= t

\* An assignment name = value followed by the statements Rest(name): value is
\* computed once, however often Rest reads it.
Assigned(value, Rest(_)) == CHOOSE result \in { Rest(name) : name \in {value} } : TRUE

RECURSIVE BitsAscending(_)
\* The squares of a bitboard in the order the "pop LS1B" loops visit them.
BitsAscending(bitboard) ==
    IF bitboard = {} THEN <<>>
    ELSE Assigned(LS1B(bitboard), LAMBDA s :
             <<s>> \o BitsAscending(bitboard \ {s}))

RECURSIVE Flatten(_)
Flatten(seqs) ==
    IF seqs = <<>> THEN <<>> ELSE Head(seqs) \o Flatten(Tail(seqs))

SeqRange(s) == {s[i] : i \in 1..Len(s)}

\* ------------------------------------------------------------------------
\* Board state
\* ------------------------------------------------------------------------
setup_pieces(boards, piece_type, squares) ==
    [bitboards |-> [boards.bitboards EXCEPT ![piece_type] = @ \cup squares],
     mailbox   |-> [s \in Squares |-> IF s \in squares THEN piece_type
                                       ELSE boards.mailbox[s]]]

\* A variant that forgets the black pieces in the aggregate occupancy.
update_occupancies_white_only(bitboards) ==
    LET white == UNION {bitboards[t] : t \in P..K}
        black == UNION {bitboards[t] : t \in p..k}
    IN  [c \in 0..2 |-> IF c = WHITE THEN white
                        ELSE IF c = BLACK THEN black
                        ELSE white]

update_occupancies(bitboards) ==
    LET white == UNION {bitboards[t] : t \in P..K}
        black == UNION {bitboards[t] : t \in p..k}
    IN  [c \in 0..2 |-> IF c = WHITE THEN white
                        ELSE IF c = BLACK THEN black
                        ELSE white \cup black]

InitialSetup ==
    <<  <<P, 8..15>>, <<R, {A1, H1}>>, <<N, {B1, G1}>>, <<B, {C1, F1}>>,
        <<Q, {D1}>>, <<K, {E1}>>,
        <<p, 48..55>>, <<r, {A8, H8}>>, <<n, {B8, G8}>>, <<b, {C8, F8}>>,
        <<q, {D8}>>, <<k, {E8}>> >>

RECURSIVE SetupAll(_, _)
SetupAll(boards, todo) ==
    IF todo = <<>> THEN boards
    ELSE SetupAll(setup_pieces(boards, Head(todo)[1], Head(todo)[2]), Tail(todo))

create_initial_state ==
    LET boards == SetupAll([bitboards |-> [t \in 0..11 |-> {}],
                            mailbox   |-> [s \in Squares |-> EMPTY]],
                           InitialSetup)
    IN  [bitboards       |-> boards.bitboards,
         occupancies     |-> update_occupancies(boards.bitboards),
         mailbox         |-> boards.mailbox,
         side_to_move    |-> WHITE,
         castling_rights |-> {0, 1, 2, 3},
         en_passant      |-> -1,
         halfmove        |-> 0,
         fullmove        |-> 1,
         game_status     |-> "ongoing",
         selected_square |-> None,
         history         |-> << boards.mailbox >>]

\* ------------------------------------------------------------------------
\* Attack tables
\* ------------------------------------------------------------------------
OnBoard(rank, file) == rank >= 0 /\ rank <= 7 /\ file >= 0 /\ file <= 7

\* init_leapers: pawn_attacks[color][sq]
pawn_attacks(color, sq) ==
    IF color = WHITE
    THEN IF (sq \div 8) < 7
         THEN (IF (sq % 8) > 0 THEN {sq + 7} ELSE {})
              \cup (IF (sq % 8) < 7 THEN {sq + 9} ELSE {})
         ELSE {}
    ELSE IF (sq \div 8) > 0
         THEN (IF (sq % 8) > 0 THEN {sq - 9} ELSE {})
              \cup (IF (sq % 8) < 7 THEN {sq - 7} ELSE {})
         ELSE {}

KnightOffsets ==
    { <<2, -1>>, <<2, 1>>, <<1, -2>>, <<1, 2>>,
      <<-2, -1>>, <<-2, 1>>, <<-1, -2>>, <<-1, 2>> }

KingOffsets ==
    { <<1, -1>>, <<1, 0>>, <<1, 1>>, <<0, -1>>, <<0, 1>>,
      <<-1, -1>>, <<-1, 0>>, <<-1, 1>> }

Leaper(sq, offsets) ==
    { ((sq \div 8) + o[1]) * 8 + ((sq % 8) + o[2]) :
        o \in { x \in offsets : OnBoard((sq \div 8) + x[1], (sq % 8) + x[2]) } }

knight_attacks(sq) == Leaper(sq, KnightOffsets)

king_attacks(sq) == Leaper(sq, KingOffsets)

\* One ray of a sliding piece: every square up to and including the first
\* occupied one.
RECURSIVE Ray(_, _, _, _, _)
Ray(rank, file, dr, df, occupancy) ==
    IF ~OnBoard(rank, file) THEN {}
    ELSE LET sq == rank * 8 + file
         IN  IF sq \in occupancy THEN {sq}
             ELSE {sq} \cup Ray(rank + dr, file + df, dr, df, occupancy)

\* A variant whose rays start on the origin square.
Rays_from_origin(square, occupancy, dirs) ==
    UNION { Ray(square \div 8, square % 8, d[1], d[2], occupancy) : d \in dirs }

Rays(square, occupancy, dirs) ==
    UNION { Ray((square \div 8) + d[1], (square % 8) + d[2], d[1], d[2], occupancy)
            : d \in dirs }

get_bishop_attacks(square, occupancy) ==
    Rays(square, occupancy, { <<-1, -1>>, <<-1, 1>>, <<1, -1>>, <<1, 1>> })

get_rook_attacks(square, occupancy) ==
    Rays(square, occupancy, { <<-1, 0>>, <<1, 0>>, <<0, -1>>, <<0, 1>> })

get_queen_attacks(square, occupancy) ==
    get_bishop_attacks(square, occupancy) \cup get_rook_attacks(square, occupancy)

\* ------------------------------------------------------------------------
\* Move generation
\* ------------------------------------------------------------------------
opponent_color(color) == IF color = WHITE THEN BLACK ELSE WHITE

\* A variant that reads the pawn table of the attacking colour.
attacked_by_pawn_own_table(st, square, by_color) ==
    LET attacking_pawns == IF by_color = WHITE THEN st.bitboards[P] ELSE st.bitboards[p]
    IN  pawn_attacks(by_color, square) \cap attacking_pawns # {}

\* is_square_attacked, 1. Attacked by Pawn?
attacked_by_pawn(st, square, by_color) ==
    LET attacking_pawns == IF by_color = WHITE THEN st.bitboards[P] ELSE st.bitboards[p]
        defender_color  == IF by_color = WHITE THEN BLACK ELSE WHITE
    IN  pawn_attacks(defender_color, square) \cap attacking_pawns # {}

is_square_attacked(st, square, by_color) ==
    LET bitboards == st.bitboards
        occupancy == st.occupancies[BOTH]
        attacking_knights == IF by_color = WHITE THEN bitboards[N] ELSE bitboards[n]
        attacking_king    == IF by_color = WHITE THEN bitboards[K] ELSE bitboards[k]
        attacking_bishops == IF by_color = WHITE THEN bitboards[B] ELSE bitboards[b]
        attacking_queens  == IF by_color = WHITE THEN bitboards[Q] ELSE bitboards[q]
        attacking_rooks   == IF by_color = WHITE THEN bitboards[R] ELSE bitboards[r]
    IN  \/ attacked_by_pawn(st, square, by_color)
        \/ knight_attacks(square) \cap attacking_knights # {}
        \/ king_attacks(square) \cap attacking_king # {}
        \/ get_bishop_attacks(square, occupancy)
               \cap (attacking_bishops \cup attacking_queens) # {}
        \/ get_rook_attacks(square, occupancy)
               \cap (attacking_rooks \cup attacking_queens) # {}

is_in_check(st, side) ==
    LET k_bb == st.bitboards[IF side = WHITE THEN K ELSE k]
    IN  IF k_bb = {} THEN TRUE
        ELSE is_square_attacked(st, LS1B(k_bb), IF side = WHITE THEN BLACK ELSE WHITE)

\* A variant without the double push from the pawn's first rank.
get_pawn_moves_single_push(st, sq, side, enemy, both) ==
    LET ep_sq == st.en_passant
    IN  IF side = WHITE
        THEN (IF sq + 8 < 64 /\ ~get_bit(both, sq + 8) THEN {sq + 8} ELSE {})
             \cup (pawn_attacks(WHITE, sq) \cap enemy)
             \cup (IF ep_sq # -1 /\ get_bit(pawn_attacks(WHITE, sq), ep_sq)
                   THEN {ep_sq} ELSE {})
        ELSE (IF sq - 8 >= 0 /\ ~get_bit(both, sq - 8) THEN {sq - 8} ELSE {})
             \cup (pawn_attacks(BLACK, sq) \cap enemy)
             \cup (IF ep_sq # -1 /\ get_bit(pawn_attacks(BLACK, sq), ep_sq)
                   THEN {ep_sq} ELSE {})

get_pawn_moves(st, sq, side, enemy, both) ==
    LET rank == sq \div 8
        ep_sq == st.en_passant
    IN  IF side = WHITE
        THEN (IF sq + 8 < 64 /\ ~get_bit(both, sq + 8)
              THEN {sq + 8} \cup (IF rank = 1 /\ ~get_bit(both, sq + 16)
                                  THEN {sq + 16} ELSE {})
              ELSE {})
             \cup (pawn_attacks(WHITE, sq) \cap enemy)
             \cup (IF ep_sq # -1 /\ get_bit(pawn_attacks(WHITE, sq), ep_sq)
                   THEN {ep_sq} ELSE {})
        ELSE (IF sq - 8 >= 0 /\ ~get_bit(both, sq - 8)
              THEN {sq - 8} \cup (IF rank = 6 /\ ~get_bit(both, sq - 16)
                                  THEN {sq - 16} ELSE {})
              ELSE {})
             \cup (pawn_attacks(BLACK, sq) \cap enemy)
             \cup (IF ep_sq # -1 /\ get_bit(pawn_attacks(BLACK, sq), ep_sq)
                   THEN {ep_sq} ELSE {})

Move(frm, to, promote, castle) ==
    [from |-> frm, to |-> to, promote |-> promote, castle |-> castle]

\* Python's None where a move is expected.
NoMove == Move(None, None, None, NoCastle)

\* ------------------------------------------------------------------------
\* Move making
\* ------------------------------------------------------------------------
\* A variant that sets the rook on the king's destination.
CastleRook_onto_king(castle) ==
    IF castle = "K" THEN <<R, H1, G1>>
    ELSE IF castle = "Q" THEN <<R, A1, C1>>
    ELSE IF castle = "k" THEN <<r, H8, G8>>
    ELSE <<r, A8, C8>>

\* The rook a castle tag relocates: <<rook, r_from, r_to>>.
CastleRook(castle) ==
    IF castle = "K" THEN <<R, H1, F1>>
    ELSE IF castle = "Q" THEN <<R, A1, D1>>
    ELSE IF castle = "k" THEN <<r, H8, F8>>
    ELSE <<r, A8, D8>>

\* A variant with the direction of the captured pawn reversed.
ep_capture_square_reversed(side, to) == IF side = WHITE THEN to + 8 ELSE to - 8

\* Step 3: the square of the pawn an en-passant capture removes.
ep_capture_square(side, to) == IF side = WHITE THEN to - 8 ELSE to + 8

\* A variant that does not test that the moved piece is a pawn.
en_passant_after_any_piece(piece, frm, to) ==
    IF frm - to = 16 \/ to - frm = 16 THEN (frm + to) \div 2 ELSE -1

\* A variant that takes the pawn's destination for the target.
en_passant_after_destination(piece, frm, to) ==
    IF (piece = P \/ piece = p) /\ (frm - to = 16 \/ to - frm = 16)
    THEN to ELSE -1

\* Step 5: the en-passant target after the move.
en_passant_after(piece, frm, to) ==
    IF (piece = P \/ piece = p) /\ (frm - to = 16 \/ to - frm = 16)
    THEN (frm + to) \div 2 ELSE -1

\* A variant whose king masks are or-ed in instead of and-ed.
castling_rights_after_or(rights, piece, frm, to) ==
    ((((((rights
        \cup (IF piece = K THEN {2, 3} ELSE {}))
        \cup (IF piece = k THEN {0, 1} ELSE {}))
        \ (IF frm = H1 \/ to = H1 THEN {0} ELSE {}))
        \ (IF frm = A1 \/ to = A1 THEN {1} ELSE {}))
        \ (IF frm = H8 \/ to = H8 THEN {2} ELSE {}))
        \ (IF frm = A8 \/ to = A8 THEN {3} ELSE {}))

\* A variant that looks at the corner a piece leaves only.
castling_rights_after_source_only(rights, piece, frm, to) ==
    ((((((rights
        \ (IF piece = K THEN {0, 1} ELSE {}))
        \ (IF piece = k THEN {2, 3} ELSE {}))
        \ (IF frm = H1 THEN {0} ELSE {}))
        \ (IF frm = A1 THEN {1} ELSE {}))
        \ (IF frm = H8 THEN {2} ELSE {}))
        \ (IF frm = A8 THEN {3} ELSE {}))

\* A variant that clears rights for king moves only.
castling_rights_after_king_only(rights, piece, frm, to) ==
    (rights \ (IF piece = K THEN {0, 1} ELSE {}))
            \ (IF piece = k THEN {2, 3} ELSE {})

\* Step 6: the castling rights after the move.  The bitmask is modelled as
\* the set of its set bits: 0 = K, 1 = Q, 2 = k, 3 = q.
castling_rights_after(rights, piece, frm, to) ==
    ((((((rights
        \ (IF piece = K THEN {0, 1} ELSE {}))
        \ (IF piece = k THEN {2, 3} ELSE {}))
        \ (IF frm = H1 \/ to = H1 THEN {0} ELSE {}))
        \ (IF frm = A1 \/ to = A1 THEN {1} ELSE {}))
        \ (IF frm = H8 \/ to = H8 THEN {2} ELSE {}))
        \ (IF frm = A8 \/ to = A8 THEN {3} ELSE {}))

\* A variant that counts every ply as a full move.
fullmove_after_every_ply(side_to_move, fullmove) == fullmove + 1

\* Step 8: new_state['fullmove'] once the side to move is switched.
fullmove_after(side_to_move, fullmove) ==
    IF side_to_move = WHITE THEN fullmove + 1 ELSE fullmove

\* Steps 0-8 of make_move: everything up to the switch of the side to move.
\* The result carries no history and the status 'ongoing', as the dictionary
\* new_state does at line 595.
ApplyMove(st, move) ==
    LET frm      == move.from
        to       == move.to
        piece    == st.mailbox[frm]
        captured == st.mailbox[to]
        side     == st.side_to_move
        \* 0. capture
        bb0 == IF captured # EMPTY
               THEN [st.bitboards EXCEPT ![captured] = pop_bit(@, to)]
               ELSE st.bitboards
        hm  == IF captured # EMPTY THEN 0 ELSE st.halfmove + 1
        \* 1. move piece (a piece of -1 indexes the last bitboard)
        pi  == PyIndex(piece, 12)
        bb1 == [bb0 EXCEPT ![pi] = set_bit(pop_bit(@, frm), to)]
        mb1 == [st.mailbox EXCEPT ![frm] = EMPTY, ![to] = piece]
        \* 2. promotion
        bb2 == IF move.promote # None
               THEN [[bb1 EXCEPT ![pi] = pop_bit(@, to)]
                          EXCEPT ![move.promote] = set_bit(@, to)]
               ELSE bb1
        mb2 == IF move.promote # None THEN [mb1 EXCEPT ![to] = move.promote] ELSE mb1
        \* 3. en passant capture
        is_ep   == (piece = P \/ piece = p) /\ to = st.en_passant
        cap_sq  == PyIndex(ep_capture_square(side, to), 64)
        cap_pi  == PyIndex(mb2[cap_sq], 12)
        bb3 == IF is_ep THEN [bb2 EXCEPT ![cap_pi] = pop_bit(@, cap_sq)] ELSE bb2
        mb3 == IF is_ep THEN [mb2 EXCEPT ![cap_sq] = EMPTY] ELSE mb2
        \* 4. castling (move rook)
        rk  == CastleRook(move.castle)
        bb4 == IF move.castle # NoCastle
               THEN [bb3 EXCEPT ![rk[1]] = set_bit(pop_bit(@, rk[2]), rk[3])]
               ELSE bb3
        mb4 == IF move.castle # NoCastle
               THEN [mb3 EXCEPT ![rk[2]] = EMPTY, ![rk[3]] = rk[1]]
               ELSE mb3
        \* 5. en passant target
        ep  == en_passant_after(piece, frm, to)
        \* 6. castling rights
        cr  == castling_rights_after(st.castling_rights, piece, frm, to)
        \* 8. switch side
        stm == IF side = WHITE THEN BLACK ELSE WHITE
    IN  [bitboards       |-> bb4,
         occupancies     |-> update_occupancies(bb4),
         mailbox         |-> mb4,
         side_to_move    |-> stm,
         castling_rights |-> cr,
         en_passant      |-> ep,
         halfmove        |-> hm,
         fullmove        |-> fullmove_after(stm, st.fullmove),
         game_status     |-> "ongoing",
         selected_square |-> None,
         history         |-> <<>>]

\* A variant that takes every pseudo-legal move for legal.
is_legal_always(st, move) == TRUE

\* A variant that looks at the king of the side to move after the move.
is_legal_other_king(st, move) ==
    ~is_in_check(ApplyMove(st, move), opponent_color(st.side_to_move))

is_legal(st, move) == ~is_in_check(ApplyMove(st, move), st.side_to_move)

\* A variant that tests only the king's destination square for attacks.
generate_castling_moves_destination_only(st, side) ==
    LET occupancy == st.occupancies[BOTH]
        rights    == st.castling_rights
    IN  IF is_in_check(st, side) THEN <<>>
        ELSE IF side = WHITE
        THEN (IF 0 \in rights /\ ~get_bit(occupancy, F1) /\ ~get_bit(occupancy, G1)
                 /\ ~is_square_attacked(st, G1, BLACK)
              THEN << Move(E1, G1, None, "K") >> ELSE <<>>)
          \o (IF 1 \in rights /\ ~get_bit(occupancy, D1) /\ ~get_bit(occupancy, C1)
                 /\ ~get_bit(occupancy, B1)
                 /\ ~is_square_attacked(st, C1, BLACK)
              THEN << Move(E1, C1, None, "Q") >> ELSE <<>>)
        ELSE (IF 2 \in rights /\ ~get_bit(occupancy, F8) /\ ~get_bit(occupancy, G8)
                 /\ ~is_square_attacked(st, G8, WHITE)
              THEN << Move(E8, G8, None, "k") >> ELSE <<>>)
          \o (IF 3 \in rights /\ ~get_bit(occupancy, D8) /\ ~get_bit(occupancy, C8)
                 /\ ~get_bit(occupancy, B8)
                 /\ ~is_square_attacked(st, C8, WHITE)
              THEN << Move(E8, C8, None, "q") >> ELSE <<>>)

generate_castling_moves(st, side) ==
    LET occupancy == st.occupancies[BOTH]
        rights    == st.castling_rights
    IN  IF is_in_check(st, side) THEN <<>>
        ELSE IF side = WHITE
        THEN (IF 0 \in rights /\ ~get_bit(occupancy, F1) /\ ~get_bit(occupancy, G1)
                 /\ ~is_square_attacked(st, F1, BLACK)
                 /\ ~is_square_attacked(st, G1, BLACK)
              THEN << Move(E1, G1, None, "K") >> ELSE <<>>)
          \o (IF 1 \in rights /\ ~get_bit(occupancy, D1) /\ ~get_bit(occupancy, C1)
                 /\ ~get_bit(occupancy, B1)
                 /\ ~is_square_attacked(st, D1, BLACK)
                 /\ ~is_square_attacked(st, C1, BLACK)
              THEN << Move(E1, C1, None, "Q") >> ELSE <<>>)
        ELSE (IF 2 \in rights /\ ~get_bit(occupancy, F8) /\ ~get_bit(occupancy, G8)
                 /\ ~is_square_attacked(st, F8, WHITE)
                 /\ ~is_square_attacked(st, G8, WHITE)
              THEN << Move(E8, G8, None, "k") >> ELSE <<>>)
          \o (IF 3 \in rights /\ ~get_bit(occupancy, D8) /\ ~get_bit(occupancy, C8)
                 /\ ~get_bit(occupancy, B8)
                 /\ ~is_square_attacked(st, D8, WHITE)
                 /\ ~is_square_attacked(st, C8, WHITE)
              THEN << Move(E8, C8, None, "q") >> ELSE <<>>)

\* The pseudo-legal destination mask of the piece p_type on from_sq.
Attacks(st, p_type, from_sq) ==
    LET side     == st.side_to_move
        friendly == st.occupancies[side]
        enemy    == st.occupancies[opponent_color(side)]
        both     == st.occupancies[BOTH]
    IN  IF p_type = P \/ p_type = p
          THEN get_pawn_moves(st, from_sq, side, enemy, both)
        ELSE IF p_type = N \/ p_type = n
          THEN knight_attacks(from_sq) \ friendly
        ELSE IF p_type = B \/ p_type = b
          THEN get_bishop_attacks(from_sq, both) \ friendly
        ELSE IF p_type = R \/ p_type = r
          THEN get_rook_attacks(from_sq, both) \ friendly
        ELSE IF p_type = Q \/ p_type = q
          THEN get_queen_attacks(from_sq, both) \ friendly
        ELSE king_attacks(from_sq) \ friendly

\* A variant that lists no promotion: the pawn moves on as a pawn.
Candidates_no_promotion(st, p_type, from_sq, to_sq) ==
    << Move(from_sq, to_sq, None, NoCastle) >>

\* A variant that lists the promotion to a queen only.
Candidates_queen_only(st, p_type, from_sq, to_sq) ==
    IF (p_type = P /\ 7 * 8 <= to_sq /\ to_sq <= 7 * 8 + 7)
       \/ (p_type = p /\ 0 <= to_sq /\ to_sq <= 7)
    THEN << Move(from_sq, to_sq,
                 IF st.side_to_move = WHITE THEN Q ELSE Q + 6, NoCastle) >>
    ELSE << Move(from_sq, to_sq, None, NoCastle) >>

\* The candidate moves of one (piece, from, to): four promotions or one move.
Candidates(st, p_type, from_sq, to_sq) ==
    IF (p_type = P /\ 7 * 8 <= to_sq /\ to_sq <= 7 * 8 + 7)
       \/ (p_type = p /\ 0 <= to_sq /\ to_sq <= 7)
    THEN [i \in 1..4 |->
             Move(from_sq, to_sq,
                  IF st.side_to_move = WHITE THEN <<Q, R, B, N>>[i]
                  ELSE <<Q, R, B, N>>[i] + 6,
                  NoCastle)]
    ELSE << Move(from_sq, to_sq, None, NoCastle) >>

PseudoLegal(st, only_captures) ==
    LET side   == st.side_to_move
        enemy  == st.occupancies[opponent_color(side)]
        pieces == IF side = WHITE THEN <<P, N, B, R, Q, K>> ELSE <<p, n, b, r, q, k>>
        OfPiece(p_type, from_sq) ==
            LET att  == IF only_captures
                        THEN Attacks(st, p_type, from_sq) \cap enemy
                        ELSE Attacks(st, p_type, from_sq)
                tos  == BitsAscending(att)
            IN  Flatten([i \in 1..Len(tos) |-> Candidates(st, p_type, from_sq, tos[i])])
        OfType(p_type) ==
            LET froms == BitsAscending(st.bitboards[p_type])
            IN  Flatten([i \in 1..Len(froms) |-> OfPiece(p_type, froms[i])])
    IN  Flatten([i \in 1..6 |-> OfType(pieces[i])])

generate_moves_oc(st, only_captures) ==
    SelectSeq(PseudoLegal(st, only_captures), LAMBDA m : is_legal(st, m))
    \o (IF ~only_captures THEN generate_castling_moves(st, st.side_to_move) ELSE <<>>)

generate_moves(st) == generate_moves_oc(st, FALSE)

\* A variant that reports every position without a legal move as checkmate.
game_end_status_always_mate(new_state) ==
    IF generate_moves(new_state) = <<>> THEN "checkmate" ELSE "ongoing"

\* Steps 9-10: the status of the position a full make_move returns.
game_end_status(new_state) ==
    IF generate_moves(new_state) = <<>>
    THEN IF is_in_check(new_state, new_state.side_to_move)
         THEN "checkmate" ELSE "stalemate"
    ELSE "ongoing"

\* A variant that keeps the new snapshot alone.
history_after_last_only(history, new_mailbox) == << new_mailbox >>

\* Step 9: the copied history with the snapshot of new_mailbox appended.
history_after(history, new_mailbox) == Append(history, new_mailbox)

\* A variant that checks for the end of the game in test-only calls too.
checks_game_end_always(test_only) == TRUE

\* Step 10 is guarded by `if not test_only`.
checks_game_end(test_only) == ~test_only

make_move(st, move, test_only) ==
    LET new_state == ApplyMove(st, move)
        \* 'history' is a key of every state a full make_move or
        \* create_initial_state returned; <<>> stands for the missing key.
        hist      == IF ~test_only /\ st.history # <<>>
                     THEN history_after(st.history, new_state.mailbox) ELSE <<>>
        status    == IF checks_game_end(test_only)
                     THEN game_end_status(new_state) ELSE "ongoing"
    IN  [new_state EXCEPT !.history = hist, !.game_status = status]

\* ------------------------------------------------------------------------
\* Call nesting of make_move, generate_moves and is_legal
\* ------------------------------------------------------------------------
\* The deepest chain of nested calls of the three functions that a call
\* opens, the call itself counted, followed for at most `fuel` calls:
\* is_legal calls make_move(test_only=True) once; generate_moves calls
\* is_legal for every candidate move; make_move calls generate_moves on its
\* result when it checks for the end of the game.
RECURSIVE nesting_make_move(_, _, _, _)
RECURSIVE nesting_generate_moves(_, _)
nesting_is_legal(st, move, fuel) ==
    IF fuel = 0 THEN 0
    ELSE 1 + nesting_make_move(st, move, TRUE, fuel - 1)

nesting_generate_moves(st, fuel) ==
    IF fuel = 0 THEN 0
    ELSE Assigned(PseudoLegal(st, FALSE), LAMBDA candidates :
             Assigned({ nesting_is_legal(st, candidates[i], fuel - 1) :
                            i \in 1..Len(candidates) } \cup {0},
                      LAMBDA below :
                          1 + (CHOOSE d \in below : \A e \in below : d >= e)))

nesting_make_move(st, move, test_only, fuel) ==
    IF fuel = 0 THEN 0
    ELSE IF checks_game_end(test_only)
         THEN 1 + nesting_generate_moves(ApplyMove(st, move), fuel - 1)
         ELSE 1

\* ------------------------------------------------------------------------
\* The objects make_move writes to
\* ------------------------------------------------------------------------
\* make_move updates new_bitboards, new_occupancies, new_mailbox and
\* new_state['history'] in place.  Each is named by the object it is: a list
\* of the input state, or a list created during the call.
InputList(field) == [owner |-> "input", field |-> field]

\* A variant that binds the new name to the list itself instead of a copy.
list_alias(obj) == obj

\* list(x): a new list object holding the elements of x.
list_copy(obj) == [owner |-> "call", field |-> obj.field]

\* The list objects new_bitboards, new_occupancies, new_mailbox (lines
\* 507-509) and new_state['history'] (line 599) name.
new_bitboards_obj   == list_copy(InputList("bitboards"))
new_occupancies_obj == list_copy(InputList("occupancies"))
new_mailbox_obj     == list_copy(InputList("mailbox"))
new_history_obj     == list_copy(InputList("history"))

\* The dictionary `state` as it reads once the call make_move(state, move,
\* test_only) that returned `res` is over: a list of the input state holds the
\* written values exactly when the list the call wrote to is that very
\* object.  new_state itself is a dictionary literal, so no key of the input
\* dictionary is reassigned.
input_after_make_move(st, res, test_only) ==
    [st EXCEPT
       !.bitboards   = IF new_bitboards_obj = InputList("bitboards")
                       THEN res.bitboards ELSE @,
       !.occupancies = IF new_occupancies_obj = InputList("occupancies")
                       THEN res.occupancies ELSE @,
       !.mailbox     = IF new_mailbox_obj = InputList("mailbox")
                       THEN res.mailbox ELSE @,
       !.history     = IF ~test_only /\ st.history # <<>>
                          /\ new_history_obj = InputList("history")
                       THEN res.history ELSE @]

\* The list object state['history'][i] of the input state, a snapshot.
InputSnapshot(i) == [owner |-> "input", field |-> "history", index |-> i]

\* The list object list(new_mailbox) that line 600 appends.
new_snapshot_obj == [owner |-> "call", field |-> "history", index |-> 0]

\* The objects new_state['history'] holds when make_move(st, ...) returns:
\* list(state['history']) is a new list of the objects the old one holds,
\* and the new snapshot is appended to it.
new_history_elements(st) ==
    Append([i \in 1..Len(st.history) |-> InputSnapshot(i)], new_snapshot_obj)

\* The mutable objects of the input state: its four lists and the snapshots
\* in its history.
input_objects(st) ==
    { InputList(field) : field \in {"bitboards", "occupancies", "mailbox", "history"} }
        \cup { InputSnapshot(i) : i \in 1..Len(st.history) }

\* The mutable objects of the state make_move(st, move, test_only) returns.
result_objects(st, test_only) ==
    { new_bitboards_obj, new_occupancies_obj, new_mailbox_obj }
        \cup (IF ~test_only /\ st.history # <<>>
               THEN { new_history_obj } \cup SeqRange(new_history_elements(st))
               ELSE {})

\* The state `res` that make_move(st, move) returned, as it reads after
\* state['history'][i][sq] = piece is run on the input state st: the entry
\* changes in res when its history holds that very snapshot object.
result_after_snapshot_write(st, res, i, sq, piece) ==
    IF new_history_elements(st)[i] = InputSnapshot(i)
    THEN [res EXCEPT !.history[i][sq] = piece]
    ELSE res

\* ------------------------------------------------------------------------
\* Starting lines: games played from create_initial_state()
\* ------------------------------------------------------------------------
\* (no move)
LineStart ==
    << >>

\* g2g4 e7e5 a2a3 e5e4 f2f4
LineMateOrEnPassant ==
    << <<14, 30>>, <<52, 36>>, <<8, 16>>, <<36, 28>>, <<13, 29>> >>

\* e2e3 a7a5 d1h5 a8a6 h5a5 h7h5 h2h4 a6h6 a5c7 f7f6 c7d7 e8f7 d7b7 d8d3
\* b7b8 d3h7 b8c8 f7g6
LineLoyd ==
    << <<12, 20>>, <<48, 32>>, <<3, 39>>, <<56, 40>>, <<39, 32>>,
       <<55, 39>>, <<15, 31>>, <<40, 47>>, <<32, 50>>, <<53, 45>>,
       <<50, 51>>, <<60, 53>>, <<51, 49>>, <<59, 19>>, <<49, 57>>,
       <<19, 55>>, <<57, 58>>, <<53, 46>> >>

\* e2e4 b7b6 e4e5 c8a6 g2g3 h7h6 f1g2 h6h5 g1f3 d7d5
LineEnPassantOrCastle ==
    << <<12, 28>>, <<49, 41>>, <<28, 36>>, <<58, 40>>, <<14, 22>>,
       <<55, 47>>, <<5, 14>>, <<47, 39>>, <<6, 21>>, <<51, 35>> >>

\* e2e4 e7e5 g1f3 b8c6 f1c4 f8c5 d2d4 c5b4
LineCastleInCheck ==
    << <<12, 28>>, <<52, 36>>, <<6, 21>>, <<57, 42>>, <<5, 26>>,
       <<61, 34>>, <<11, 27>>, <<34, 25>> >>

\* a2a4 b7b5 a4b5 a7a6 b5a6 c8b7 a6b7 b8c6
LinePromoWhite ==
    << <<8, 24>>, <<49, 33>>, <<24, 33>>, <<48, 40>>, <<33, 40>>,
       <<58, 49>>, <<40, 49>>, <<57, 42>> >>

\* h2h3 a7a5 b2b4 a5b4 a2a3 b4a3 c1b2 a3b2 b1c3
LinePromoBlack ==
    << <<15, 23>>, <<48, 32>>, <<9, 25>>, <<32, 25>>, <<8, 16>>,
       <<25, 16>>, <<2, 9>>, <<16, 9>>, <<1, 18>> >>

\* e2e4 e7e5 g1f3 b8c6 f1c4 f8c5 d2d4 c5b4 b1c3 a7a6
LinePinned ==
    << <<12, 28>>, <<52, 36>>, <<6, 21>>, <<57, 42>>, <<5, 26>>,
       <<61, 34>>, <<11, 27>>, <<34, 25>>, <<1, 18>>, <<48, 40>> >>

\* e2e4 e7e5 d1h5 b8c6 h5f7
LineQxf7 ==
    << <<12, 28>>, <<52, 36>>, <<3, 39>>, <<57, 42>>, <<39, 53>> >>

\* e2e4 e7e5 f1c4 b8c6 c4f7
LineBxf7 ==
    << <<12, 28>>, <<52, 36>>, <<5, 26>>, <<57, 42>>, <<26, 53>> >>

\* f2f3 e7e5 g2g4 d8h4
LineFoolsMate ==
    << <<13, 21>>, <<52, 36>>, <<14, 30>>, <<59, 31>> >>

\* e2e3 a7a5 d1h5 a8a6 h5a5 h7h5 h2h4 a6h6 a5c7 f7f6 c7d7 e8f7 d7b7 d8d3
\* b7b8 d3h7 b8c8 f7g6 c8e6
LineLoydStalemate ==
    << <<12, 20>>, <<48, 32>>, <<3, 39>>, <<56, 40>>, <<39, 32>>,
       <<55, 39>>, <<15, 31>>, <<40, 47>>, <<32, 50>>, <<53, 45>>,
       <<50, 51>>, <<60, 53>>, <<51, 49>>, <<59, 19>>, <<49, 57>>,
       <<19, 55>>, <<57, 58>>, <<53, 46>>, <<58, 44>> >>

\* e2e3 b7b5 f1b5 e7e5 b5d7 c8d7 h2h4 d8h4 h1h4 d7h3 g2h3 e5e4 h4e4 f8e7
\* e4e7 e8e7 f2f3 c7c5 d2d4 c5d4 e3d4 g8h6 c1h6 g7h6 d1c1 b8d7 c1h6 d7b8
\* h6h7 h8h7 a2a3 h7h3 g1h3 e7d7 c2c3 b8a6 b2b4 a6b4 a3b4 d7d8 a1a7 a8a7
\* b1a3 a7a3 b4b5 a3c3 e1f1 c3f3 f1g1 f3h3 g1f2 h3g3 f2g3 d8e8 g3f4 f7f5
\* f4f5 e8f8 f5f6 f8g8 d4d5 g8f8 f6g6 f8g8 d5d6 g8h8 g6f7 h8h7 d6d7 h7h8
\* d7d8q h8h7 d8h8 h7h8 f7g6 h8g8 g6h6 g8h8
LineKingPawnWhite ==
    << <<12, 20>>, <<49, 33>>, <<5, 33>>, <<52, 36>>, <<33, 51>>,
       <<58, 51>>, <<15, 31>>, <<59, 31>>, <<7, 31>>, <<51, 23>>,
       <<14, 23>>, <<36, 28>>, <<31, 28>>, <<61, 52>>, <<28, 52>>,
       <<60, 52>>, <<13, 21>>, <<50, 34>>, <<11, 27>>, <<34, 27>>,
       <<20, 27>>, <<62, 47>>, <<2, 47>>, <<54, 47>>, <<3, 2>>,
       <<57, 51>>, <<2, 47>>, <<51, 57>>, <<47, 55>>, <<63, 55>>,
       <<8, 16>>, <<55, 23>>, <<6, 23>>, <<52, 51>>, <<10, 18>>,
       <<57, 40>>, <<9, 25>>, <<40, 25>>, <<16, 25>>, <<51, 59>>,
       <<0, 48>>, <<56, 48>>, <<1, 16>>, <<48, 16>>, <<25, 33>>,
       <<16, 18>>, <<4, 5>>, <<18, 21>>, <<5, 6>>, <<21, 23>>,
       <<6, 13>>, <<23, 22>>, <<13, 22>>, <<59, 60>>, <<22, 29>>,
       <<53, 37>>, <<29, 37>>, <<60, 61>>, <<37, 45>>, <<61, 62>>,
       <<27, 35>>, <<62, 61>>, <<45, 46>>, <<61, 62>>, <<35, 43>>,
       <<62, 63>>, <<46, 53>>, <<63, 55>>, <<43, 51>>, <<55, 63>>,
       <<51, 59>>, <<63, 55>>, <<59, 63>>, <<55, 63>>, <<53, 46>>,
       <<63, 62>>, <<46, 47>>, <<62, 63>> >>

\* f2f3 e7e6 b1a3 f8a3 b2a3 d8e7 d2d3 e7a3 c1a3 d7d6 a3d6 c7d6 e1f2 e8e7
\* c2c3 g8h6 g2g4 h6g4 f3g4 b8c6 d3d4 c6d4 c3d4 f7f5 g4f5 e6f5 a2a3 b7b6
\* e2e4 f5e4 d1d3 e4d3 f1d3 g7g6 d3g6 h7g6 f2e3 h8h2 h1h2 c8h3 g1h3 e7f7
\* h2b2 a8h8 b2b6 h8h3 e3e4 h3a3 a1a3 a7b6 a3a5 b6a5 e4e3 d6d5 e3f4 g6g5
\* f4g5 f7e7 g5h5 e7e6 h5h6 e6e7 h6h5 e7d7 h5h4 d7c7 h4h5 c7c6 h5h6 c6d6
\* h6g7 d6c7 g7h6 c7d6 h6h7 d6c6 h7g6 c6d6 g6h5 d6e6 h5g6 e6e7 g6h7 e7f7
\* h7h8 f7e7 h8g7 e7e8 g7g8 e8d7 g8h8 d7e7 h8h7 e7f8 h7h8
LineKingPawnBlack ==
    << <<13, 21>>, <<52, 44>>, <<1, 16>>, <<61, 16>>, <<9, 16>>,
       <<59, 52>>, <<11, 19>>, <<52, 16>>, <<2, 16>>, <<51, 43>>,
       <<16, 43>>, <<50, 43>>, <<4, 13>>, <<60, 52>>, <<10, 18>>,
       <<62, 47>>, <<14, 30>>, <<47, 30>>, <<21, 30>>, <<57, 42>>,
       <<19, 27>>, <<42, 27>>, <<18, 27>>, <<53, 37>>, <<30, 37>>,
       <<44, 37>>, <<8, 16>>, <<49, 41>>, <<12, 28>>, <<37, 28>>,
       <<3, 19>>, <<28, 19>>, <<5, 19>>, <<54, 46>>, <<19, 46>>,
       <<55, 46>>, <<13, 20>>, <<63, 15>>, <<7, 15>>, <<58, 23>>,
       <<6, 23>>, <<52, 53>>, <<15, 9>>, <<56, 63>>, <<9, 41>>,
       <<63, 23>>, <<20, 28>>, <<23, 16>>, <<0, 16>>, <<48, 41>>,
       <<16, 32>>, <<41, 32>>, <<28, 20>>, <<43, 35>>, <<20, 29>>,
       <<46, 38>>, <<29, 38>>, <<53, 52>>, <<38, 39>>, <<52, 44>>,
       <<39, 47>>, <<44, 52>>, <<47, 39>>, <<52, 51>>, <<39, 31>>,
       <<51, 50>>, <<31, 39>>, <<50, 42>>, <<39, 47>>, <<42, 43>>,
       <<47, 54>>, <<43, 50>>, <<54, 47>>, <<50, 43>>, <<47, 55>>,
       <<43, 42>>, <<55, 46>>, <<42, 43>>, <<46, 39>>, <<43, 44>>,
       <<39, 46>>, <<44, 52>>, <<46, 55>>, <<52, 53>>, <<55, 63>>,
       <<53, 52>>, <<63, 54>>, <<52, 60>>, <<54, 62>>, <<60, 51>>,
       <<62, 63>>, <<51, 52>>, <<63, 55>>, <<52, 61>>, <<55, 63>> >>

\* h2h4 g7g5 h4g5 d7d5 h1h7 h8h7 c2c4 d5c4 g1h3 c8h3 g2h3 h7h3 f1h3 d8d2
\* c1d2 f7f6 g5f6 e7f6 h3d7 e8d7 b2b3 c4b3 d1b3 b8c6 b3b7 f8a3 b7a7 a8a7
\* b1a3 a7a3 d2b4 c6b4 e1d1 b4a2 a1a2 a3a2 d1e1 a2e2
LineRookCheck ==
    << <<15, 31>>, <<54, 38>>, <<31, 38>>, <<51, 35>>, <<7, 55>>,
       <<63, 55>>, <<10, 26>>, <<35, 26>>, <<6, 23>>, <<58, 23>>,
       <<14, 23>>, <<55, 23>>, <<5, 23>>, <<59, 11>>, <<2, 11>>,
       <<53, 45>>, <<38, 45>>, <<52, 45>>, <<23, 51>>, <<60, 51>>,
       <<9, 17>>, <<26, 17>>, <<3, 17>>, <<57, 42>>, <<17, 49>>,
       <<61, 16>>, <<49, 48>>, <<56, 48>>, <<1, 16>>, <<48, 16>>,
       <<11, 25>>, <<42, 25>>, <<4, 3>>, <<25, 8>>, <<0, 8>>,
       <<16, 8>>, <<3, 4>>, <<8, 12>> >>

\* b1c3 d7d5 c3d5 d8d5 h2h3 d5g2 f1g2 c8h3 g2b7 h3f1 h1h7 f1e2 h7h8 e2d1
\* b7a8 d1c2 h8g8 g7g6 g8g6 f7g6 a8c6 b8c6 b2b4 c6b4 d2d3 b4a2 a1a2 c2d3
\* a2a7 e7e5 a7c7 g6g5 c1g5 f8h6 g5h6 d3e2 g1e2 e5e4 h6f8
LineBishopEnding ==
    << <<1, 18>>, <<51, 35>>, <<18, 35>>, <<59, 35>>, <<15, 23>>,
       <<35, 14>>, <<5, 14>>, <<58, 23>>, <<14, 49>>, <<23, 5>>,
       <<7, 55>>, <<5, 12>>, <<55, 63>>, <<12, 3>>, <<49, 56>>,
       <<3, 10>>, <<63, 62>>, <<54, 46>>, <<62, 46>>, <<53, 46>>,
       <<56, 42>>, <<57, 42>>, <<9, 25>>, <<42, 25>>, <<11, 19>>,
       <<25, 8>>, <<0, 8>>, <<10, 19>>, <<8, 48>>, <<52, 36>>,
       <<48, 50>>, <<46, 38>>, <<2, 38>>, <<61, 47>>, <<38, 47>>,
       <<19, 12>>, <<6, 12>>, <<36, 28>>, <<47, 61>> >>

\* d2d4 b8c6 g2g3 f7f5 b2b4 e8f7 d4d5 g7g6 g3g4 d7d6 f1g2 c6d4 h2h3 h7h6
\* g2f3 d4b5 g4f5 b5a3 b4b5 a8b8 e1d2 d8d7 f3h5 d7d8 d2e3 b8a8 c1b2 d8e8
\* c2c3 e8d8 d1e1 a3b5 c3c4 a7a5 e1d1 e7e5 b2c1 b5d4 f2f4 e5e4 h1h2 d8d7
\* b1d2 h8h7 h2g2 d4c6 d5c6 f7e7 d1c2 h7g7 g2g3 d7f5 h5f3 c8d7 d2b3 d7e6
\* c2d1 e7f6 d1d3 f6e7 g3g5 f5f7 g5b5 b7b6 d3d2 e6d5 d2b2 a8d8 b5a5 e7e6
\* b2g7 f8g7 a1b1 g7d4 e3d4 d8e8 a5d5 f7f4 e2e3 f4f6 d5e5
LineQxe5 ==
    << <<11, 27>>, <<57, 42>>, <<14, 22>>, <<53, 37>>, <<9, 25>>,
       <<60, 53>>, <<27, 35>>, <<54, 46>>, <<22, 30>>, <<51, 43>>,
       <<5, 14>>, <<42, 27>>, <<15, 23>>, <<55, 47>>, <<14, 21>>,
       <<27, 33>>, <<30, 37>>, <<33, 16>>, <<25, 33>>, <<56, 57>>,
       <<4, 11>>, <<59, 51>>, <<21, 39>>, <<51, 59>>, <<11, 20>>,
       <<57, 56>>, <<2, 9>>, <<59, 60>>, <<10, 18>>, <<60, 59>>,
       <<3, 4>>, <<16, 33>>, <<18, 26>>, <<48, 32>>, <<4, 3>>,
       <<52, 36>>, <<9, 2>>, <<33, 27>>, <<13, 29>>, <<36, 28>>,
       <<7, 15>>, <<59, 51>>, <<1, 11>>, <<63, 55>>, <<15, 14>>,
       <<27, 42>>, <<35, 42>>, <<53, 52>>, <<3, 10>>, <<55, 54>>,
       <<14, 22>>, <<51, 37>>, <<39, 21>>, <<58, 51>>, <<11, 17>>,
       <<51, 44>>, <<10, 3>>, <<52, 45>>, <<3, 19>>, <<45, 52>>,
       <<22, 38>>, <<37, 53>>, <<38, 33>>, <<49, 41>>, <<19, 11>>,
       <<44, 35>>, <<11, 9>>, <<56, 59>>, <<33, 32>>, <<52, 44>>,
       <<9, 54>>, <<61, 54>>, <<0, 1>>, <<54, 27>>, <<20, 27>>,
       <<59, 60>>, <<32, 35>>, <<53, 29>>, <<12, 20>>, <<29, 45>>,
       <<35, 36>> >>

\* d2d4 d7d5 b1c3 b8c6 c1f4 c8f5 d1d2 d8d7 e2e3 e7e6 g1f3 g8f6 f1e2 f8e7
LineCastleBothWings ==
    << <<11, 27>>, <<51, 35>>, <<1, 18>>, <<57, 42>>, <<2, 29>>,
       <<58, 37>>, <<3, 11>>, <<59, 51>>, <<12, 20>>, <<52, 44>>,
       <<6, 21>>, <<62, 45>>, <<5, 12>>, <<61, 52>> >>

\* d2d3 g8h6 c1h6 g7h6 d3d4 c7c5 d4c5 d7d5 d1d5 d8d5 f2f3 d5a2 a1a2 e7e6
\* a2a7 f8c5 a7a8 c5g1 a8b8 g1h2 h1h2 e8g8 b8c8 f8c8 h2h6 c8c2 h6h7 c2b2
\* h7f7 b2b1 e1d2 b1f1 f7b7 f1f3 g2f3 e6e5 f3f4 e5f4 b7f7 g8f7 e2e3 f4e3
LineBareKings ==
    << <<11, 19>>, <<62, 47>>, <<2, 47>>, <<54, 47>>, <<19, 27>>,
       <<50, 34>>, <<27, 34>>, <<51, 35>>, <<3, 35>>, <<59, 35>>,
       <<13, 21>>, <<35, 8>>, <<0, 8>>, <<52, 44>>, <<8, 48>>,
       <<61, 34>>, <<48, 56>>, <<34, 6>>, <<56, 57>>, <<6, 15>>,
       <<7, 15>>, <<60, 62>>, <<57, 58>>, <<61, 58>>, <<15, 47>>,
       <<58, 10>>, <<47, 55>>, <<10, 9>>, <<55, 53>>, <<9, 1>>,
       <<4, 11>>, <<1, 5>>, <<53, 49>>, <<5, 21>>, <<14, 21>>,
       <<44, 36>>, <<21, 29>>, <<36, 29>>, <<49, 53>>, <<62, 53>>,
       <<12, 20>>, <<29, 20>> >>

\* b1a3 b7b5 a3b5 g8h6 b5a7 a8a7 h2h3 a7a2 a1a2 c8a6 a2a6 b8a6 b2b4 a6b4
\* g2g4 h6g4 h3g4 b4c2 d1c2 d8a8 c2c7 a8h1 c7d7 e8d7 f2f3 h1g1 d2d4 g1d4
\* f1h3 d4g4 f3g4 g7g5 c1g5 h8g8 g5e7 d7e7 e2e3 g8g4 h3g4 f7f5 g4f5 f8h6
\* f5h7 h6e3 e1d1 e3d2
LineKingAndBishop ==
    << <<1, 16>>, <<49, 33>>, <<16, 33>>, <<62, 47>>, <<33, 48>>,
       <<56, 48>>, <<15, 23>>, <<48, 8>>, <<0, 8>>, <<58, 40>>,
       <<8, 40>>, <<57, 40>>, <<9, 25>>, <<40, 25>>, <<14, 30>>,
       <<47, 30>>, <<23, 30>>, <<25, 10>>, <<3, 10>>, <<59, 56>>,
       <<10, 50>>, <<56, 7>>, <<50, 51>>, <<60, 51>>, <<13, 21>>,
       <<7, 6>>, <<11, 27>>, <<6, 27>>, <<5, 23>>, <<27, 30>>,
       <<21, 30>>, <<54, 38>>, <<2, 38>>, <<63, 62>>, <<38, 52>>,
       <<51, 52>>, <<12, 20>>, <<62, 30>>, <<23, 30>>, <<53, 37>>,
       <<30, 37>>, <<61, 47>>, <<37, 55>>, <<47, 20>>, <<4, 3>>,
       <<20, 11>> >>

\* b2b4 c7c5 b4c5 d7d6 c5d6 e7d6 g2g4 c8g4 b1a3 g4e2 f1e2 a7a6 e2a6 b8a6
\* d2d4 b7b5 a3b5 d8g5 c1g5 a8c8 b5d6 f8d6 g5h4 d6h2 h1h2 c8c2 d1c2 g7g6
\* c2g6 f7g6 h4d8 e8d8 h2h7 h8h7 g1h3 h7h3 a2a3 h3a3 a1a3 g8e7 a3a6 e7f5
\* a6g6 f5d4 g6e6 d4e6 f2f4
LineKingAndKnight ==
    << <<9, 25>>, <<50, 34>>, <<25, 34>>, <<51, 43>>, <<34, 43>>,
       <<52, 43>>, <<14, 30>>, <<58, 30>>, <<1, 16>>, <<30, 12>>,
       <<5, 12>>, <<48, 40>>, <<12, 40>>, <<57, 40>>, <<11, 27>>,
       <<49, 33>>, <<16, 33>>, <<59, 38>>, <<2, 38>>, <<56, 58>>,
       <<33, 43>>, <<61, 43>>, <<38, 31>>, <<43, 15>>, <<7, 15>>,
       <<58, 10>>, <<3, 10>>, <<54, 46>>, <<10, 46>>, <<53, 46>>,
       <<31, 59>>, <<60, 59>>, <<15, 55>>, <<63, 55>>, <<6, 23>>,
       <<55, 23>>, <<8, 16>>, <<23, 16>>, <<0, 16>>, <<62, 52>>,
       <<16, 40>>, <<52, 37>>, <<40, 46>>, <<37, 27>>, <<46, 44>>,
       <<27, 44>>, <<13, 29>> >>

\* g1f3 e7e5 f3e5 g8f6 e5f7 e8f7 b2b4 f8b4 c1a3 b4d2 e1d2 c7c5 a3c5 d7d5
\* c5a7 a8a7 d2c1 a7a2 d1d5 d8d5 a1a2 d5a2 c1d1 a2b1 d1d2 b1c2 d2c2 f6d5
\* g2g4 c8g4 c2d1 g4e2 f1e2 b7b5 e2b5 b8d7 b5d7 h8e8 d7e8 f7e8 f2f4 d5f4
\* h2h3 f4h3 h1h3 e8d8 h3h7 d8e7
LineKingAndRook ==
    << <<6, 21>>, <<52, 36>>, <<21, 36>>, <<62, 45>>, <<36, 53>>,
       <<60, 53>>, <<9, 25>>, <<61, 25>>, <<2, 16>>, <<25, 11>>,
       <<4, 11>>, <<50, 34>>, <<16, 34>>, <<51, 35>>, <<34, 48>>,
       <<56, 48>>, <<11, 2>>, <<48, 8>>, <<3, 35>>, <<59, 35>>,
       <<0, 8>>, <<35, 8>>, <<2, 3>>, <<8, 1>>, <<3, 11>>, <<1, 10>>,
       <<11, 10>>, <<45, 35>>, <<14, 30>>, <<58, 30>>, <<10, 3>>,
       <<30, 12>>, <<5, 12>>, <<49, 33>>, <<12, 33>>, <<57, 51>>,
       <<33, 51>>, <<63, 60>>, <<51, 60>>, <<53, 60>>, <<13, 29>>,
       <<35, 29>>, <<15, 23>>, <<29, 23>>, <<7, 23>>, <<60, 59>>,
       <<23, 55>>, <<59, 52>> >>

\* e2e4 e7e5 f1c4 b8c6 d1h5 g8f6 h5f7
LineScholarsMate ==
    << <<12, 28>>, <<52, 36>>, <<5, 26>>, <<57, 42>>, <<3, 39>>,
       <<62, 45>>, <<39, 53>> >>

\* The moves of generate_moves(st) with the given from and to, in order.
MatchingMoves(st, frm, to) ==
    SelectSeq(generate_moves(st), LAMBDA m : m.from = frm /\ m.to = to)

\* The state after one move of a line: the move is the first of
\* generate_moves with the pair's from and to and is applied by make_move; a
\* pair that matches no move is not played.
PlayMove(st, pair) ==
    Assigned(MatchingMoves(st, pair[1], pair[2]), LAMBDA found :
        IF found = <<>> THEN st ELSE make_move(st, Head(found), FALSE))

\* The state after the moves of a line, in order, starting from st: the first
\* half of the line and then the second.
RECURSIVE PlayLine(_, _)
PlayLine(st, line) ==
    IF line = <<>> THEN st
    ELSE IF Len(line) = 1 THEN PlayMove(st, line[1])
    ELSE Assigned(PlayLine(st, SubSeq(line, 1, Len(line) \div 2)), LAMBDA half :
             PlayLine(half, SubSeq(line, Len(line) \div 2 + 1, Len(line))))

\* The lines play starts from.
Lines ==
    { LineStart, LineMateOrEnPassant, LineLoyd, LineEnPassantOrCastle,
      LineCastleInCheck, LinePromoWhite, LinePromoBlack, LinePinned,
      LineQxf7, LineBxf7 }

StartStates == { PlayLine(create_initial_state, line) : line \in Lines }

\* ------------------------------------------------------------------------
\* Evaluation (chess_ai.py 10-201)
\* ------------------------------------------------------------------------
\* MATERIAL[p_type], as a tuple read at p_type + 1.
MATERIAL ==
    << 100, 320, 330, 500, 900, 20000, -100, -320, -330, -500, -900, -20000 >>

\* The piece-square tables, as tuples read at table_idx + 1: the first entry
\* is a8, the last h1.
PAWN_PSQT ==
    <<   0,   0,   0,   0,   0,   0,   0,   0,
        50,  50,  50,  50,  50,  50,  50,  50,
        10,  10,  20,  30,  30,  20,  10,  10,
         5,   5,  10,  25,  25,  10,   5,   5,
         0,   0,   0,  20,  20,   0,   0,   0,
         5,  -5, -10,   0,   0, -10,  -5,   5,
         5,  10,  10, -20, -20,  10,  10,   5,
         0,   0,   0,   0,   0,   0,   0,   0 >>

KNIGHT_PSQT ==
    << -50, -40, -30, -30, -30, -30, -40, -50,
       -40, -20,   0,   0,   0,   0, -20, -40,
       -30,   0,  10,  15,  15,  10,   0, -30,
       -30,   5,  15,  20,  20,  15,   5, -30,
       -30,   0,  15,  20,  20,  15,   0, -30,
       -30,   5,  10,  15,  15,  10,   5, -30,
       -40, -20,   0,   5,   5,   0, -20, -40,
       -50, -40, -30, -30, -30, -30, -40, -50 >>

BISHOP_PSQT ==
    << -20, -10, -10, -10, -10, -10, -10, -20,
       -10,   0,   0,   0,   0,   0,   0, -10,
       -10,   0,   5,  10,  10,   5,   0, -10,
       -10,   5,   5,  10,  10,   5,   5, -10,
       -10,   0,  10,  10,  10,  10,   0, -10,
       -10,  10,  10,  10,  10,  10,  10, -10,
       -10,   5,   0,   0,   0,   0,   5, -10,
       -20, -10, -10, -10, -10, -10, -10, -20 >>

ROOK_PSQT ==
    <<   0,   0,   0,   0,   0,   0,   0,   0,
         5,  10,  10,  10,  10,  10,  10,   5,
        -5,   0,   0,   0,   0,   0,   0,  -5,
        -5,   0,   0,   0,   0,   0,   0,  -5,
        -5,   0,   0,   0,   0,   0,   0,  -5,
        -5,   0,   0,   0,   0,   0,   0,  -5,
        -5,   0,   0,   0,   0,   0,   0,  -5,
         0,   0,   0,   5,   5,   0,   0,   0 >>

QUEEN_PSQT ==
    << -20, -10, -10,  -5,  -5, -10, -10, -20,
       -10,   0,   0,   0,   0,   0,   0, -10,
       -10,   0,   5,   5,   5,   5,   0, -10,
        -5,   0,   5,   5,   5,   5,   0,  -5,
         0,   0,   5,   5,   5,   5,   0,  -5,
       -10,   5,   5,   5,   5,   5,   0, -10,
       -10,   0,   5,   0,   0,   0,   0, -10,
       -20, -10, -10,  -5,  -5, -10, -10, -20 >>

KING_PSQT ==
    << -30, -40, -40, -50, -50, -40, -40, -30,
       -30, -40, -40, -50, -50, -40, -40, -30,
       -30, -40, -40, -50, -50, -40, -40, -30,
       -30, -40, -40, -50, -50, -40, -40, -30,
       -20, -30, -30, -40, -40, -30, -30, -20,
       -10, -20, -20, -20, -20, -20, -20, -10,
        20,  20,   0,   0,   0,   0,  20,  20,
        20,  30,  10,   0,   0,  10,  30,  20 >>

KING_END_PSQT ==
    << -50, -40, -30, -20, -20, -30, -40, -50,
       -30, -20, -10,   0,   0, -10, -20, -30,
       -30, -10,  20,  30,  30,  20, -10, -30,
       -30, -10,  30,  40,  40,  30, -10, -30,
       -30, -10,  30,  40,  40,  30, -10, -30,
       -30, -10,  20,  30,  30,  20, -10, -30,
       -30, -30,   0,   0,   0,   0, -30, -30,
       -50, -30, -30, -30, -30, -30, -30, -50 >>

\* PSQT[p_type] for the white piece types, as a tuple read at p_type + 1.
PSQT ==
    << PAWN_PSQT, KNIGHT_PSQT, BISHOP_PSQT, ROOK_PSQT, QUEEN_PSQT, KING_PSQT >>

\* The score evaluate gives a finished game.
MateScore == 20000
StalemateScore == 0

\* table_idx of a square: (7 - rank) * 8 + file.
table_idx(sq) == (7 - (sq \div 8)) * 8 + (sq % 8)

\* A variant that leaves the square as it is.
flipped_sq_same(sq) == sq

\* sq ^ 56: 56 is 0b111000, so the three rank bits are inverted (rank
\* becomes 7 - rank) and the three file bits are kept.
flipped_sq(sq) == LET f_rank == 7 - (sq \div 8)
                      f_file == sq % 8
                  IN  f_rank * 8 + f_file

\* What one piece on sq adds to the score.
PieceScore(p_type, sq) ==
    IF p_type <= K
    THEN MATERIAL[p_type + 1] + PSQT[p_type + 1][table_idx(sq) + 1]
    ELSE MATERIAL[p_type + 1] - PSQT[(p_type - 6) + 1][table_idx(flipped_sq(sq)) + 1]

\* The while loop over one bitboard: squares holds its set bits, lowest
\* first, and i is the index of the bit the loop is at.
RECURSIVE BitboardScore(_, _, _, _)
BitboardScore(p_type, squares, i, score) ==
    IF i > Len(squares) THEN score
    ELSE BitboardScore(p_type, squares, i + 1, score + PieceScore(p_type, squares[i]))

\* The two for loops over the piece types first..last.
RECURSIVE TypesScore(_, _, _, _)
TypesScore(st, first, last, score) ==
    IF first > last THEN score
    ELSE Assigned(BitsAscending(st.bitboards[first]), LAMBDA squares :
             TypesScore(st, first + 1, last,
                        BitboardScore(first, squares, 1, score)))

\* A variant that scores every state by its pieces.
evaluate_pieces_only(st) == TypesScore(st, p, k, TypesScore(st, P, K, 0))

evaluate(st) ==
    IF st.game_status = "checkmate"
    THEN (IF st.side_to_move = WHITE THEN -MateScore ELSE MateScore)
    ELSE IF st.game_status = "stalemate" THEN StalemateScore
    ELSE TypesScore(st, p, k, TypesScore(st, P, K, 0))

\* ------------------------------------------------------------------------
\* Search (chess_ai.py 207-288)
\* ------------------------------------------------------------------------
\* float('inf'): larger than every score; -Inf is -float('inf').
Inf == 10000000

Max(x, y) == IF x >= y THEN x ELSE y

\* A variant that returns the larger value.
Min_larger(x, y) == IF x <= y THEN y ELSE x

Min(x, y) == IF x <= y THEN x ELSE y

\* The for loops of minimax.  A loop carries its variables in a record:
\* max_eval or min_eval, alpha or beta, and `broke` once it has hit its break.
\* MaxStep and MinStep are one pass of the loop body on moves[i]; MaxLoop and
\* MinLoop run the passes lo..hi in order, the first half of the range and
\* then the second.
RECURSIVE minimax(_, _, _, _, _), MaxLoop(_, _, _, _, _, _, _), MinLoop(_, _, _, _, _, _, _)
MaxStep(st, moves, i, depth, beta, vars_in) ==
    IF vars_in.broke THEN vars_in
    ELSE
    Assigned(make_move(st, moves[i], FALSE), LAMBDA new_state :
    Assigned(minimax(new_state, depth - 1, vars_in.alpha, beta, FALSE), LAMBDA eval_score :
    Assigned(Max(vars_in.alpha, eval_score), LAMBDA alpha :
        [max_eval |-> Max(vars_in.max_eval, eval_score),
         alpha    |-> alpha,
         broke    |-> beta <= alpha])))

MaxLoop(st, moves, lo, hi, depth, beta, vars_in) ==
    IF lo = hi THEN MaxStep(st, moves, lo, depth, beta, vars_in)
    ELSE Assigned(MaxLoop(st, moves, lo, (lo + hi) \div 2, depth, beta, vars_in),
                  LAMBDA vars_mid :
                      MaxLoop(st, moves, (lo + hi) \div 2 + 1, hi, depth, beta, vars_mid))

MinStep(st, moves, i, depth, alpha, vars_in) ==
    IF vars_in.broke THEN vars_in
    ELSE
    Assigned(make_move(st, moves[i], FALSE), LAMBDA new_state :
    Assigned(minimax(new_state, depth - 1, alpha, vars_in.beta, TRUE), LAMBDA eval_score :
    Assigned(Min(vars_in.beta, eval_score), LAMBDA beta :
        [min_eval |-> Min(vars_in.min_eval, eval_score),
         beta     |-> beta,
         broke    |-> beta <= alpha])))

MinLoop(st, moves, lo, hi, depth, alpha, vars_in) ==
    IF lo = hi THEN MinStep(st, moves, lo, depth, alpha, vars_in)
    ELSE Assigned(MinLoop(st, moves, lo, (lo + hi) \div 2, depth, alpha, vars_in),
                  LAMBDA vars_mid :
                      MinLoop(st, moves, (lo + hi) \div 2 + 1, hi, depth, alpha, vars_mid))

\* The test minimax starts with: when it holds the static evaluation is
\* returned and no move is searched.
returns_evaluate(st, depth) == depth = 0 \/ st.game_status # "ongoing"

minimax(st, depth, alpha, beta, maximizing_player) ==
    IF returns_evaluate(st, depth) THEN evaluate(st)
    ELSE
    Assigned(generate_moves(st), LAMBDA moves :
        IF moves = <<>>
        THEN (IF is_in_check(st, st.side_to_move)
              THEN (IF maximizing_player
                    THEN -MateScore + (10 - depth)
                    ELSE MateScore - (10 - depth))
              ELSE 0)
        ELSE IF maximizing_player
             THEN MaxLoop(st, moves, 1, Len(moves), depth, beta,
                          [max_eval |-> -Inf, alpha |-> alpha, broke |-> FALSE]).max_eval
             ELSE MinLoop(st, moves, 1, Len(moves), depth, alpha,
                          [min_eval |-> Inf, beta |-> beta, broke |-> FALSE]).min_eval)

\* The list `moves` after random.shuffle: the moves in the order perm gives.
Shuffled(moves, perm) == [i \in 1..Len(moves) |-> moves[perm[i]]]

\* Every outcome random.shuffle can have on the list.
Shuffles(moves) ==
    { Shuffled(moves, perm) : perm \in Permutations(1..Len(moves)) }

\* A variant that maximizes for Black.
is_maximizing_black(st) == st.side_to_move = BLACK

\* maximizing = (state['side_to_move'] == ce.WHITE)
is_maximizing(st) == st.side_to_move = WHITE

\* The for loop of get_best_move over the shuffled moves: RootStep is one
\* pass of its body on moves[i], RootLoop the passes lo..hi in order.  The
\* loop carries alpha, beta, best_score and best_move.
RootStep(st, moves, i, depth, vars_in) ==
    LET move       == moves[i]
        maximizing == is_maximizing(st)
    IN
    Assigned(make_move(st, move, FALSE), LAMBDA new_state :
    Assigned(minimax(new_state, depth - 1, vars_in.alpha, vars_in.beta, ~maximizing),
             LAMBDA score :
        IF maximizing
        THEN [alpha      |-> Max(vars_in.alpha, score),
              beta       |-> vars_in.beta,
              best_score |-> IF score > vars_in.best_score THEN score
                             ELSE vars_in.best_score,
              best_move  |-> IF score > vars_in.best_score THEN move
                             ELSE vars_in.best_move]
        ELSE [alpha      |-> vars_in.alpha,
              beta       |-> Min(vars_in.beta, score),
              best_score |-> IF score < vars_in.best_score THEN score
                             ELSE vars_in.best_score,
              best_move  |-> IF score < vars_in.best_score THEN move
                             ELSE vars_in.best_move]))

RECURSIVE RootLoop(_, _, _, _, _, _)
RootLoop(st, moves, lo, hi, depth, vars_in) ==
    IF lo = hi THEN RootStep(st, moves, lo, depth, vars_in)
    ELSE Assigned(RootLoop(st, moves, lo, (lo + hi) \div 2, depth, vars_in),
                  LAMBDA vars_mid :
                      RootLoop(st, moves, (lo + hi) \div 2 + 1, hi, depth, vars_mid))

\* A variant of the initial best_score with the two infinities exchanged.
InitialBestScore_swapped(maximizing) == IF maximizing THEN Inf ELSE -Inf

\* The initial best_score (chess_ai.py 230).
InitialBestScore(maximizing) == IF maximizing THEN -Inf ELSE Inf

\* get_best_move(state, depth) once random.shuffle has left `moves` as given;
\* NoMove is the result None.
get_best_move(st, depth, moves) ==
    IF moves = <<>> THEN NoMove
    ELSE RootLoop(st, moves, 1, Len(moves), depth,
                  [alpha      |-> -Inf,
                   beta       |-> Inf,
                   best_score |-> InitialBestScore(st.side_to_move = WHITE),
                   best_move  |-> NoMove]).best_move

\* The value of attack before an attack function is called.
NoAttack == [name |-> "none"]

\* The value of ai before get_best_move is called.
NoCall == [depth |-> 0, moves |-> <<>>, best_move |-> NoMove]

\* ------------------------------------------------------------------------
\* Status text (chess_engine.py 616-626)
\* ------------------------------------------------------------------------
get_game_status_text(st) ==
    LET side == IF st.side_to_move = WHITE THEN "White" ELSE "Black"
    IN  IF st.game_status = "checkmate"
        THEN (IF side = "White" THEN "Checkmate! Black wins!"
              ELSE "Checkmate! White wins!")
        ELSE IF st.game_status = "stalemate" THEN "Stalemate!"
        ELSE IF is_in_check(st, st.side_to_move)
             THEN (IF side = "White" THEN "White is in Check!"
                   ELSE "Black is in Check!")
             ELSE (IF side = "White" THEN "White to move" ELSE "Black to move")

\* ------------------------------------------------------------------------
\* The application (app.py)
\* ------------------------------------------------------------------------
\* The session and the JSON bodies are dictionaries: functions on the keys
\* they hold.
HasKey(d, key) == key \in DOMAIN d

SetKey(d, key, value) ==
    [x \in DOMAIN d \cup {key} |-> IF x = key THEN value ELSE d[x]]

DelKey(d, key) == [x \in DOMAIN d \ {key} |-> d[x]]

\* d.get(key, default)
GetKey(d, key, default) == IF key \in DOMAIN d THEN d[key] ELSE default

\* The session of a client that sent no cookie, and the session after
\* session.clear().
EmptySession == [x \in {} |-> None]

\* get_game_state(): the state it returns and the session it leaves.
get_game_state(sess) ==
    IF ~HasKey(sess, "game_state")
    THEN [state |-> create_initial_state, session |-> sess]
    ELSE LET st == sess["game_state"]
         IN  IF st.history = <<>>
             THEN LET migrated == [st EXCEPT !.history = <<st.mailbox>>]
                  IN  [state |-> migrated,
                       session |-> SetKey(sess, "game_state", migrated)]
             ELSE [state |-> st, session |-> sess]

save_game_state(sess, st) == SetKey(sess, "game_state", st)

\* build_board_json: a piece stands for its symbol, image and colour.
build_board_json(st) ==
    [squares |-> [i \in { s \in Squares : st.mailbox[s] # EMPTY } |-> st.mailbox[i]],
     turn    |-> IF st.side_to_move = WHITE THEN "white" ELSE "black",
     history |-> IF st.history = <<>> THEN <<st.mailbox>> ELSE st.history]

\* jsonify({'success': False})
Failure == [success |-> FALSE]

\* redirect(url_for('game'))
Redirect == [redirect |-> "game"]

\* A variant of the comparison that looks at the destination only.
matches_destination(m, frm, to) == m.to = to

\* m['from'] == frm and m['to'] == to
matches(m, frm, to) == m.from = frm /\ m.to = to

\* A variant that takes no move for a promotion.
is_promotion_never(m) == FALSE

\* m['promote'] is not None
is_promotion(m) == m.promote # None

\* POST /move/<frm>/<to>
move_piece(sess, frm, to) ==
    LET got == get_game_state(sess)
        st  == got.state
        s0  == got.session
    IN  IF st.game_status # "ongoing"
        THEN [session |-> s0, response |-> Failure]
        ELSE
        Assigned(generate_moves(st), LAMBDA moves :
        LET promo_moves == SelectSeq(moves, LAMBDA m : matches(m, frm, to)
                                                        /\ is_promotion(m))
            found       == SelectSeq(moves, LAMBDA m : matches(m, frm, to))
        IN  IF promo_moves # <<>>
            THEN [session  |-> save_game_state(
                                  SetKey(s0, "pending_promotion",
                                         [from |-> frm, to |-> to]), st),
                  response |-> [success |-> TRUE, promotion |-> TRUE,
                                from |-> frm, to |-> to]]
            ELSE IF found # <<>>
            THEN Assigned(make_move(st, Head(found), FALSE), LAMBDA new_state :
                 LET s1      == save_game_state(s0, new_state)
                     mode    == GetKey(s1, "game_mode", "pvp")
                     ai_turn == /\ mode = "ai"
                                /\ new_state.side_to_move = BLACK
                                /\ new_state.game_status = "ongoing"
                 IN  [session  |-> s1,
                      response |-> [success     |-> TRUE,
                                    board_data  |-> build_board_json(new_state),
                                    status_text |-> get_game_status_text(new_state),
                                    check       |-> is_in_check(new_state, new_state.side_to_move),
                                    game_over   |-> new_state.game_status # "ongoing",
                                    ai_turn     |-> ai_turn]])
            ELSE [session |-> s0, response |-> Failure])

\* The depth /ai_move searches to (app.py 154).
AiDepth == 3

\* POST /ai_move, when random.shuffle leaves the moves as `shuffled`.
ai_move(sess, shuffled) ==
    LET got == get_game_state(sess)
        st  == got.state
        s0  == got.session
    IN  IF st.game_status # "ongoing"
        THEN [session |-> s0, response |-> Failure]
        ELSE
        Assigned(get_best_move(st, AiDepth, shuffled), LAMBDA move :
            IF move # NoMove
            THEN Assigned(make_move(st, move, FALSE), LAMBDA new_state :
                     [session  |-> save_game_state(s0, new_state),
                      response |-> [success     |-> TRUE,
                                    board_data  |-> build_board_json(new_state),
                                    status_text |-> get_game_status_text(new_state),
                                    check       |-> is_in_check(new_state, new_state.side_to_move),
                                    game_over   |-> new_state.game_status # "ongoing",
                                    from        |-> move.from,
                                    to          |-> move.to]])
            ELSE [session |-> s0, response |-> Failure])

\* piece_char.upper(), on the characters requests are made with.
Upper(piece_char) ==
    CASE piece_char = "q" -> "Q"
      [] piece_char = "r" -> "R"
      [] piece_char = "b" -> "B"
      [] piece_char = "n" -> "N"
      [] piece_char = "k" -> "K"
      [] OTHER -> piece_char

\* mapping.get(piece_char.upper())
PromotionPiece(piece_char) ==
    LET c == Upper(piece_char)
    IN  CASE c = "Q" -> Q
          [] c = "R" -> R
          [] c = "B" -> B
          [] c = "N" -> N
          [] OTHER -> None

\* POST /promote/<piece_char>
promote(sess, piece_char) ==
    IF ~HasKey(sess, "pending_promotion")
    THEN [session |-> sess, response |-> Redirect]
    ELSE
    LET pending    == sess["pending_promotion"]
        got        == get_game_state(sess)
        st         == got.state
        s0         == got.session
        piece_type == PromotionPiece(piece_char)
    IN  IF piece_type = None
        THEN [session |-> s0, response |-> Redirect]
        ELSE
        LET side       == st.side_to_move
            real_promo == IF side = WHITE THEN piece_type ELSE piece_type + 6
            move       == Move(pending.from, pending.to, real_promo, NoCastle)
        IN
        Assigned(make_move(st, move, FALSE), LAMBDA new_state :
        LET s1         == SetKey(s0, "game_state", new_state)
            s2         == DelKey(s1, "pending_promotion")
            s3         == SetKey(s2, "move_made", TRUE)
            mode       == GetKey(s3, "game_mode", "pvp")
            ai_trigger == mode = "ai" /\ new_state.side_to_move = BLACK
            s4         == IF ai_trigger THEN SetKey(s3, "ai_trigger", TRUE) ELSE s3
        IN  [session  |-> s4,
             response |-> [success     |-> TRUE,
                           board       |-> build_board_json(new_state),
                           status_text |-> get_game_status_text(new_state),
                           check       |-> is_in_check(new_state, new_state.side_to_move),
                           game_over   |-> new_state.game_status # "ongoing",
                           ai_trigger  |-> ai_trigger]])

\* POST /set_mode/<mode>
set_mode(sess, mode) ==
    LET s1 == IF mode \in {"pvp", "ai"}
              THEN LET cleared == SetKey(EmptySession, "game_mode", mode)
                   IN  save_game_state(get_game_state(cleared).session,
                                       get_game_state(cleared).state)
              ELSE sess
        got  == get_game_state(s1)
        got2 == get_game_state(got.session)
    IN  [session  |-> got2.session,
         response |-> [success     |-> TRUE,
                       board       |-> build_board_json(got.state),
                       status_text |-> get_game_status_text(got2.state),
                       check       |-> FALSE,
                       game_over   |-> FALSE,
                       game_mode   |-> mode]]

\* POST /reset
reset(sess) ==
    LET mode == GetKey(sess, "game_mode", "pvp")
        s1   == SetKey(EmptySession, "game_mode", mode)
        got  == get_game_state(s1)
        st   == got.state
    IN  [session  |-> save_game_state(got.session, st),
         response |-> [success     |-> TRUE,
                       board       |-> build_board_json(st),
                       status_text |-> get_game_status_text(st),
                       check       |-> FALSE,
                       game_over   |-> FALSE,
                       game_mode   |-> mode]]

\* GET /state
get_state_json(sess) ==
    LET got == get_game_state(sess)
        st  == got.state
    IN  [session  |-> got.session,
         response |-> [success     |-> TRUE,
                       board_data  |-> build_board_json(st),
                       status_text |-> get_game_status_text(st),
                       check       |-> is_in_check(st, st.side_to_move),
                       game_over   |-> st.game_status # "ongoing",
                       game_mode   |-> GetKey(got.session, "game_mode", "pvp")]]

\* The values of request and response before any request.
NoRequest == [route |-> "", args |-> <<>>]
NoResponse == [x \in {} |-> None]

\* ------------------------------------------------------------------------
\* Play: make_move on moves taken from generate_moves
\* ------------------------------------------------------------------------
\* No request is part of play or of a search.
NoRequests ==
    /\ session = EmptySession
    /\ request = NoRequest
    /\ response = NoResponse
    /\ requests = 0

Init ==
    /\ state \in StartStates
    /\ legal_moves = generate_moves(state)
    /\ plies = 0
    /\ prev = state
    /\ prev_after = state
    /\ last_move = NoMove
    /\ ai = NoCall
    /\ attack = NoAttack
    /\ NoRequests

MakeMove ==
    /\ plies < MaxPlies
    /\ \E m \in SeqRange(legal_moves) :
           /\ state' = make_move(state, m, FALSE)
           /\ prev_after' = input_after_make_move(state, state', FALSE)
           /\ last_move' = m
    /\ legal_moves' = generate_moves(state')
    /\ prev' = state
    /\ plies' = plies + 1
    /\ UNCHANGED <<ai, session, request, response, requests, attack>>

Next == MakeMove

Spec == Init /\ [][Next]_vars

\* ------------------------------------------------------------------------
\* The engine from positions where the special moves are at hand
\* ------------------------------------------------------------------------
\* Both sides may castle on either wing; a pawn of either side stands before
\* promotion; a pawn may capture en passant.
\* The last four end one capture away from two bare kings, and from king and
\* bishop, king and knight, and king and rook against a bare king.
RulesLines ==
    { LineCastleBothWings, LinePromoWhite, LinePromoBlack, LineMateOrEnPassant,
      LineBareKings, LineKingAndBishop, LineKingAndKnight, LineKingAndRook }

RulesStates == { PlayLine(create_initial_state, line) : line \in RulesLines }

InitRules ==
    /\ state \in RulesStates
    /\ legal_moves = generate_moves(state)
    /\ plies = 0
    /\ prev = state
    /\ prev_after = state
    /\ last_move = NoMove
    /\ ai = NoCall
    /\ attack = NoAttack
    /\ NoRequests

SpecRules == InitRules /\ [][Next]_vars

\* ------------------------------------------------------------------------
\* Search: get_best_move on a state
\* ------------------------------------------------------------------------
\* The lines the search is called after: few legal moves, or few pieces.
AILines ==
    { LineFoolsMate, LineLoydStalemate, LineQxf7, LineBxf7, LineRookCheck,
      LineBishopEnding, LineKingPawnWhite, LineKingPawnBlack,
      LineQxe5, LineScholarsMate }

AIStates == { PlayLine(create_initial_state, line) : line \in AILines }

InitAI ==
    /\ state \in AIStates
    /\ legal_moves = generate_moves(state)
    /\ plies = 0
    /\ prev = state
    /\ prev_after = state
    /\ last_move = NoMove
    /\ ai = NoCall
    /\ attack = NoAttack
    /\ NoRequests

\* One call get_best_move(state, depth), with any outcome of the shuffle.
GetBestMove ==
    /\ ai = NoCall
    /\ \E depth \in 1..MaxDepth, shuffled \in Shuffles(legal_moves) :
           ai' = [depth     |-> depth,
                  moves     |-> shuffled,
                  best_move |-> get_best_move(state, depth, shuffled)]
    /\ UNCHANGED <<state, legal_moves, plies, prev, prev_after, last_move,
                   session, request, response, requests, attack>>

NextAI == GetBestMove

SpecAI == InitAI /\ [][NextAI]_vars

\* ------------------------------------------------------------------------
\* The attack functions called on their own
\* ------------------------------------------------------------------------
\* Corners, edge squares and squares of the centre: a1 d1 h1 a4 d4 e5 h5 a8
\* e8 h8.
BlockerSquares == { A1, D1, H1, 24, 27, 36, 39, A8, E8, H8 }

\* The occupancies the sliding attacks are called with: those of the games
\* play starts from, and the sets of at most MaxBlockers blocker squares.
Occupancies ==
    { st.occupancies[BOTH] : st \in StartStates }
        \cup { occ \in SUBSET BlockerSquares : Cardinality(occ) <= MaxBlockers }

InitAttacks ==
    /\ state = create_initial_state
    /\ legal_moves = generate_moves(state)
    /\ plies = 0
    /\ prev = state
    /\ prev_after = state
    /\ last_move = NoMove
    /\ ai = NoCall
    /\ attack = NoAttack
    /\ NoRequests

\* An attack function was called; nothing but `attack` changes.
Called(call) ==
    /\ attack' = call
    /\ UNCHANGED <<state, legal_moves, plies, prev, prev_after, last_move, ai,
                   session, request, response, requests>>

\* pawn_attacks[color][sq] is read.
PawnAttacks ==
    /\ attack = NoAttack
    /\ \E color \in {WHITE, BLACK}, sq \in Squares :
           Called([name   |-> "pawn_attacks",
                   color  |-> color,
                   square |-> sq,
                   result |-> pawn_attacks(color, sq)])

\* is_square_attacked(st, square, by_color) on a game play starts from;
\* by_pawn is the outcome of its pawn test.
IsSquareAttacked ==
    /\ attack = NoAttack
    /\ \E st \in StartStates, square \in Squares, by_color \in {WHITE, BLACK} :
           Called([name     |-> "is_square_attacked",
                   state    |-> st,
                   square   |-> square,
                   by_color |-> by_color,
                   by_pawn  |-> attacked_by_pawn(st, square, by_color),
                   result   |-> is_square_attacked(st, square, by_color)])

GetBishopAttacks ==
    /\ attack = NoAttack
    /\ \E square \in Squares, occupancy \in Occupancies :
           Called([name      |-> "get_bishop_attacks",
                   square    |-> square,
                   occupancy |-> occupancy,
                   result    |-> get_bishop_attacks(square, occupancy)])

GetRookAttacks ==
    /\ attack = NoAttack
    /\ \E square \in Squares, occupancy \in Occupancies :
           Called([name      |-> "get_rook_attacks",
                   square    |-> square,
                   occupancy |-> occupancy,
                   result    |-> get_rook_attacks(square, occupancy)])

GetQueenAttacks ==
    /\ attack = NoAttack
    /\ \E square \in Squares, occupancy \in Occupancies :
           Called([name      |-> "get_queen_attacks",
                   square    |-> square,
                   occupancy |-> occupancy,
                   result    |-> get_queen_attacks(square, occupancy)])

NextAttacks ==
    PawnAttacks \/ IsSquareAttacked \/ GetBishopAttacks \/ GetRookAttacks
        \/ GetQueenAttacks

SpecAttacks == InitAttacks /\ [][NextAttacks]_vars

\* ------------------------------------------------------------------------
\* The search call by call
\* ------------------------------------------------------------------------
\* get_best_move(state, depth) followed into minimax one call at a time.  ai
\* holds the depth and the shuffled moves of get_best_move, the depth
\* and the maximizing flag given to the minimax call in progress and the
\* number of minimax calls in progress, that one included; state is the
\* state that call was given.
\* Each loop is followed into its first pass, which no break precedes and
\* which is entered before any call has returned; the shuffle makes every
\* legal move the first one of the root loop.
InitSearch == InitAI

\* get_best_move calls minimax(new_state, depth - 1, ...) for its first move.
SearchCalls ==
    /\ ai = NoCall
    /\ legal_moves # <<>>
    /\ \E depth \in 0..MaxDepth, shuffled \in Shuffles(legal_moves) :
           /\ state' = make_move(state, shuffled[1], FALSE)
           /\ last_move' = shuffled[1]
           /\ ai' = [depth         |-> depth,
                     moves         |-> shuffled,
                     best_move     |-> NoMove,
                     minimax_depth |-> depth - 1,
                     maximizing_player |-> ~is_maximizing(state),
                     level         |-> 1]
    /\ prev_after' = input_after_make_move(state, state', FALSE)
    /\ legal_moves' = generate_moves(state')
    /\ prev' = state
    /\ plies' = plies + 1
    /\ UNCHANGED <<session, request, response, requests, attack>>

\* minimax, given state and ai.minimax_depth, does not return the evaluation,
\* finds moves and calls minimax(new_state, depth - 1, ...) for the first.
MinimaxDescends ==
    /\ ai # NoCall
    /\ ai.level < MaxNesting
    /\ ~returns_evaluate(state, ai.minimax_depth)
    /\ legal_moves # <<>>
    /\ state' = make_move(state, legal_moves[1], FALSE)
    /\ last_move' = legal_moves[1]
    /\ ai' = [ai EXCEPT !.minimax_depth = @ - 1,
                        !.maximizing_player = IF @ THEN FALSE ELSE TRUE,
                        !.level = @ + 1]
    /\ prev_after' = input_after_make_move(state, state', FALSE)
    /\ legal_moves' = generate_moves(state')
    /\ prev' = state
    /\ plies' = plies + 1
    /\ UNCHANGED <<session, request, response, requests, attack>>

NextSearch == SearchCalls \/ MinimaxDescends

SpecSearch == InitSearch /\ [][NextSearch]_vars

\* ------------------------------------------------------------------------
\* The application: requests of one client
\* ------------------------------------------------------------------------
\* The games a stored session holds.
AppLines == { LinePromoWhite, LinePinned, LineKingPawnBlack, LineFoolsMate }

AppStates == { PlayLine(create_initial_state, line) : line \in AppLines }

\* Sessions left by /move requests alone, and by /set_mode/ai followed by
\* /move requests.
PlayedSessions ==
    { save_game_state(EmptySession, st) : st \in AppStates }
    \cup { save_game_state(SetKey(EmptySession, "game_mode", "ai"), st) :
             st \in AppStates }

\* The same sessions after a /move request for a promotion of theirs.
PendingSessions ==
    UNION { { SetKey(sess, "pending_promotion", [from |-> m.from, to |-> m.to]) :
                m \in { x \in SeqRange(generate_moves(sess["game_state"])) :
                          x.promote # None } } :
            sess \in PlayedSessions }

\* The session after the /move requests for the given <<frm, to>> pairs, in
\* order.
RECURSIVE AfterMoveRequests(_, _)
AfterMoveRequests(sess, pairs) ==
    IF pairs = <<>> THEN sess
    ELSE AfterMoveRequests(move_piece(sess, Head(pairs)[1], Head(pairs)[2]).session,
                           Tail(pairs))

\* On the stored game of LinePromoWhite: b7xa8 is requested and no piece
\* chosen, then f2f3 e7e5 g2g4 d8h4 are played.  White is checkmated and the
\* pending promotion is still in the session.
StalePromotionRequests ==
    << <<49, 56>>, <<13, 21>>, <<52, 36>>, <<14, 30>>, <<59, 31>> >>

FinishedSessions ==
    { AfterMoveRequests(
          save_game_state(EmptySession, PlayLine(create_initial_state, LinePromoWhite)),
          StalePromotionRequests) }

\* On the stored game of LinePromoWhite: b7b8 is requested and no piece
\* chosen, then h2h3 c6e5 g2g3 c7c6 f2f3 d8b6 e2e3 e8d8 c2c3 d8c7 a1a2 c7b8
\* are played.  The black king stands on b8, the destination of the pending
\* promotion, and White is to move.
KingOnPromotionSquareRequests ==
    << <<49, 57>>, <<15, 23>>, <<42, 36>>, <<14, 22>>, <<50, 42>>,
       <<13, 21>>, <<59, 41>>, <<12, 20>>, <<60, 59>>, <<10, 18>>,
       <<59, 50>>, <<0, 8>>, <<50, 57>> >>

KingOnPromotionSquareSessions ==
    { AfterMoveRequests(
          save_game_state(EmptySession, PlayLine(create_initial_state, LinePromoWhite)),
          KingOnPromotionSquareRequests) }

\* The <<frm, to>> pairs /move is requested with: moves of the stored games
\* (e2e4, g1f3, b7a8, b7b8, a5a4, f8e7, e1g1) and pairs that are no move of
\* them (e2e5, e7e5, c3d5, e2e2, and a from square off the board).
MoveRequests ==
    { <<12, 28>>, <<6, 21>>, <<49, 56>>, <<49, 57>>, <<32, 24>>, <<61, 52>>,
      <<4, 6>>, <<12, 36>>, <<52, 36>>, <<18, 35>>, <<12, 12>>, <<64, 28>> }

\* The characters /promote is requested with.
PieceChars == { "Q", "R", "B", "N", "q", "k" }

\* The modes /set_mode is requested with.
Modes == { "pvp", "ai", "online" }

InitApp ==
    /\ session \in {EmptySession} \cup PlayedSessions \cup PendingSessions
    /\ request = NoRequest
    /\ response = NoResponse
    /\ requests = 0
    /\ state = create_initial_state
    /\ legal_moves = generate_moves(state)
    /\ plies = 0
    /\ prev = state
    /\ prev_after = state
    /\ last_move = NoMove
    /\ ai = NoCall
    /\ attack = NoAttack

\* A request handled: what the handler leaves in the session and answers.
Handled(route, args, out) ==
    /\ session' = out.session
    /\ response' = out.response
    /\ request' = [route |-> route, args |-> args]
    /\ requests' = requests + 1
    /\ UNCHANGED <<state, legal_moves, plies, prev, prev_after, last_move, ai,
                   attack>>

MovePiece ==
    /\ requests < MaxRequests
    /\ \E pair \in MoveRequests :
           Handled("move", pair, move_piece(session, pair[1], pair[2]))

AiMove ==
    /\ requests < MaxRequests
    /\ LET st    == get_game_state(session).state
           moves == IF st.game_status = "ongoing" THEN generate_moves(st) ELSE <<>>
       IN  /\ Len(moves) <= MaxShuffle
           /\ \E shuffled \in Shuffles(moves) :
                  Handled("ai_move", shuffled, ai_move(session, shuffled))

Promote ==
    /\ requests < MaxRequests
    /\ \E piece_char \in PieceChars :
           Handled("promote", <<piece_char>>, promote(session, piece_char))

SetMode ==
    /\ requests < MaxRequests
    /\ \E mode \in Modes :
           Handled("set_mode", <<mode>>, set_mode(session, mode))

Reset ==
    /\ requests < MaxRequests
    /\ Handled("reset", <<>>, reset(session))

GetState ==
    /\ requests < MaxRequests
    /\ Handled("state", <<>>, get_state_json(session))

NextApp == MovePiece \/ AiMove \/ Promote \/ SetMode \/ Reset \/ GetState

SpecApp == InitApp /\ [][NextApp]_vars

\* Requests of a client whose session holds a pending promotion: one asked
\* for a moment ago, or one left over from moves made since.
InitAppStale ==
    /\ session \in PendingSessions \cup FinishedSessions
                     \cup KingOnPromotionSquareSessions
    /\ request = NoRequest
    /\ response = NoResponse
    /\ requests = 0
    /\ state = create_initial_state
    /\ legal_moves = generate_moves(state)
    /\ plies = 0
    /\ prev = state
    /\ prev_after = state
    /\ last_move = NoMove
    /\ ai = NoCall
    /\ attack = NoAttack

SpecAppStale == InitAppStale /\ [][NextApp]_vars

\* ------------------------------------------------------------------------
\* Properties
\* ------------------------------------------------------------------------
Abs(x) == IF x < 0 THEN -x ELSE x

IsPawn(piece) == piece = P \/ piece = p

\* A piece of `color` stands on a square from which it attacks `square`:
\* the attack relation read forwards, from each attacker's own square.
AttackedBy(st, square, color) ==
    \E t \in Squares :
        LET piece == st.mailbox[t]
            occ   == { s \in Squares : st.mailbox[s] # EMPTY }
        IN  /\ piece # EMPTY
            /\ (IF piece <= K THEN WHITE ELSE BLACK) = color
            /\ \/ IsPawn(piece) /\ square \in pawn_attacks(color, t)
               \/ piece \in {N, n} /\ square \in knight_attacks(t)
               \/ piece \in {K, k} /\ square \in king_attacks(t)
               \/ piece \in {B, b, Q, q} /\ square \in get_bishop_attacks(t, occ)
               \/ piece \in {R, r, Q, q} /\ square \in get_rook_attacks(t, occ)

\* C1: in every reachable state the white and black occupancies share no
\* square, the aggregate occupancy is their union, and a square of the
\* mailbox is EMPTY exactly when its bit of the aggregate occupancy is clear.
C1_OccupanciesConsistent ==
    /\ state.occupancies[WHITE] \cap state.occupancies[BLACK] = {}
    /\ state.occupancies[BOTH] = state.occupancies[WHITE] \cup state.occupancies[BLACK]
    /\ \A s \in Squares :
          (state.mailbox[s] = EMPTY) <=> (s \notin state.occupancies[BOTH])

\* C1 witness: a state make_move returned for a castle move, which relocates
\* two pieces at once.
C1_Witness ==
    /\ plies >= 1
    /\ last_move.castle # NoCastle
    /\ state.mailbox[last_move.to] \in {K, k}

\* C2: every move of generate_moves, castle moves included, leaves the mover's
\* king unattacked; every non-castle move of it is pseudo-legal; and every
\* pseudo-legal move that leaves the mover's king unattacked is in it.
C2_LegalIffKingSafe ==
    LET moves  == SeqRange(legal_moves)
        pseudo == SeqRange(PseudoLegal(state, FALSE))
        side   == state.side_to_move
        Safe(m) == ~is_in_check(make_move(state, m, TRUE), side)
    IN  /\ \A m \in moves : Safe(m)
        /\ \A m \in moves : m.castle = NoCastle => m \in pseudo
        /\ \A m \in pseudo : Safe(m) => m \in moves

\* C2 witness: the side to move is not in check and a knight of it has a
\* pseudo-legal move that is not legal (the knight is pinned).
C2_Witness ==
    /\ ~is_in_check(state, state.side_to_move)
    /\ \E m \in SeqRange(PseudoLegal(state, FALSE)) :
          /\ state.mailbox[m.from] \in {N, n}
          /\ m \notin SeqRange(legal_moves)

\* C3: the status of a state returned by a full make_move is 'checkmate'
\* exactly when the side to move has no legal move and is in check,
\* 'stalemate' exactly when it has none and is not in check, and 'ongoing'
\* exactly when it has a legal move.
C3_StatusMatchesMoves ==
    LET none  == legal_moves = <<>>
        check == is_in_check(state, state.side_to_move)
    IN  /\ (state.game_status = "checkmate") <=> (none /\ check)
        /\ (state.game_status = "stalemate") <=> (none /\ ~check)
        /\ (state.game_status = "ongoing") <=> ~none

\* C3 witness: a move has just produced a stalemate.
C3_Witness ==
    /\ plies >= 1
    /\ state.game_status = "stalemate"
    /\ ~is_in_check(state, state.side_to_move)

\* C4: a castling right never goes from cleared to set: every make_move
\* returns rights that are a subset of the rights of its input.
C4_CastlingRightsOnlyCleared ==
    [][state'.castling_rights \subseteq state.castling_rights]_vars

\* C4 witness: a move has cleared exactly White's kingside right.
C4_Witness ==
    /\ plies >= 1
    /\ prev.castling_rights = {0, 1, 2, 3}
    /\ state.castling_rights = {1, 2, 3}

C6_BestMoveNoneIffNoMoves ==
    ai # NoCall =>
        /\ ai.depth >= 1
        /\ (ai.best_move = NoMove) <=> (generate_moves(state) = <<>>)
        /\ ai.best_move # NoMove =>
               \E i \in 1..Len(generate_moves(state)) :
                   generate_moves(state)[i] = ai.best_move

\* A call on a position with several legal moves has returned one of them.
C6_Witness ==
    /\ ai # NoCall
    /\ ai.depth >= 1
    /\ Len(generate_moves(state)) > 1
    /\ ai.best_move \in SeqRange(generate_moves(state))

\* C7: a /move request whose (from, to) pair matches no move of
\* generate_moves(stored state) answers {'success': False} and leaves the
\* session, and so the stored game state, exactly as it was.
C7_NoMatchFailsAndKeepsState ==
    [][ ( /\ request'.route = "move"
          /\ ~ \E m \in SeqRange(generate_moves(get_game_state(session).state)) :
                   /\ m.from = request'.args[1]
                   /\ m.to = request'.args[2] )
        => ( /\ response' = [success |-> FALSE]
             /\ session' = session ) ]_vars

\* The pinned knight's c3-d5 was requested on the stored game of LinePinned:
\* the answer is a failure and that game is still the stored one.
C7_Witness ==
    /\ request = [route |-> "move", args |-> <<18, 35>>]
    /\ response = [success |-> FALSE]
    /\ HasKey(session, "game_state")
    /\ session["game_state"] = PlayLine(create_initial_state, LinePinned)
    /\ session["game_state"].mailbox[18] = N

\* C8: when a pawn moves onto the en-passant target of the state, exactly the
\* opposing pawn one rank behind the destination (to-8 for White, to+8 for
\* Black) is removed and every other piece but the moving pawn stays put.
C8_EnPassantRemovesThePawnBehind ==
    (plies >= 1 /\ IsPawn(prev.mailbox[last_move.from])
                /\ last_move.to = prev.en_passant)
    => LET frm    == last_move.from
           to     == last_move.to
           pawn   == prev.mailbox[frm]
           victim == IF pawn = P THEN p ELSE P
           behind == IF prev.side_to_move = WHITE THEN to - 8 ELSE to + 8
       IN  /\ prev.mailbox[behind] = victim
           /\ prev.mailbox[to] = EMPTY
           /\ state.mailbox =
                 [s \in Squares |-> IF s = frm \/ s = behind THEN EMPTY
                                    ELSE IF s = to THEN pawn
                                    ELSE prev.mailbox[s]]
           /\ state.bitboards =
                 [t \in 0..11 |-> IF t = pawn THEN (prev.bitboards[t] \ {frm}) \cup {to}
                                  ELSE IF t = victim THEN prev.bitboards[t] \ {behind}
                                  ELSE prev.bitboards[t]]

\* C8 witness: a white pawn has just captured en passant.
C8_Witness ==
    /\ plies >= 1
    /\ prev.en_passant # -1
    /\ last_move.to = prev.en_passant
    /\ prev.mailbox[last_move.from] = P
    /\ state.mailbox[last_move.to] = P

\* C9: after make_move the en-passant target is the square midway between
\* from and to exactly when the moved piece is a pawn that advanced two
\* ranks, and is -1 after every other move; e2-e4 from the initial position
\* gives the target e3 with Black to move and the status 'ongoing'.
C9_EnPassantTargetRule ==
    plies >= 1 =>
       LET frm == last_move.from
           to  == last_move.to
           two == /\ IsPawn(prev.mailbox[frm])
                  /\ Abs((to \div 8) - (frm \div 8)) = 2
       IN  /\ two => state.en_passant = (frm + to) \div 2
           /\ ~two => state.en_passant = -1
           /\ (prev = create_initial_state /\ frm = 12 /\ to = 28)
                 => /\ state.en_passant = 20
                    /\ state.side_to_move = BLACK
                    /\ state.game_status = "ongoing"

\* C9 witness: a move other than a double pawn push has been made in a state
\* that had an en-passant target, and the target is gone.
C9_Witness ==
    /\ plies >= 1
    /\ prev.en_passant # -1
    /\ ~IsPawn(prev.mailbox[last_move.from])
    /\ state.en_passant = -1

\* C10: generate_moves holds no castle move when the side to move is in
\* check, when a square between king and rook is occupied, or when a square
\* the king crosses or lands on is attacked by the opponent.
C10_NoCastleWhenForbidden ==
    \A m \in SeqRange(legal_moves) :
       m.castle # NoCastle =>
          LET side    == state.side_to_move
              enemy   == IF side = WHITE THEN BLACK ELSE WHITE
              king_sq == IF side = WHITE THEN E1 ELSE E8
              kingside == m.to > m.from
              between == IF kingside THEN {king_sq + 1, king_sq + 2}
                         ELSE {king_sq - 1, king_sq - 2, king_sq - 3}
              crossed == IF kingside THEN {king_sq + 1, king_sq + 2}
                         ELSE {king_sq - 1, king_sq - 2}
          IN  /\ m.from = king_sq
              /\ m.to = (IF kingside THEN king_sq + 2 ELSE king_sq - 2)
              /\ ~AttackedBy(state, king_sq, enemy)
              /\ \A s \in between : state.mailbox[s] = EMPTY
              /\ \A s \in crossed : ~AttackedBy(state, s, enemy)

\* C10 witness: White holds the kingside right, is not in check, f1 and g1
\* are empty, f1 is attacked, and no kingside castle move is generated.
C10_Witness ==
    /\ state.side_to_move = WHITE
    /\ 0 \in state.castling_rights
    /\ state.mailbox[F1] = EMPTY /\ state.mailbox[G1] = EMPTY
    /\ ~is_in_check(state, WHITE)
    /\ AttackedBy(state, F1, BLACK)
    /\ ~AttackedBy(state, G1, BLACK)
    /\ \A m \in SeqRange(legal_moves) : m.castle # "K"

\* The four castles: the right, the squares that must be empty, the squares
\* the king crosses or lands on, and where king and rook start and end.
CastleCases ==
    { [side |-> WHITE, castle |-> "K", bit |-> 0, bits |-> {0, 1},
       king |-> K, rook |-> R, king_from |-> E1, king_to |-> G1,
       rook_from |-> H1, rook_to |-> F1, between |-> {F1, G1}, crossed |-> {F1, G1}],
      [side |-> WHITE, castle |-> "Q", bit |-> 1, bits |-> {0, 1},
       king |-> K, rook |-> R, king_from |-> E1, king_to |-> C1,
       rook_from |-> A1, rook_to |-> D1, between |-> {B1, C1, D1}, crossed |-> {C1, D1}],
      [side |-> BLACK, castle |-> "k", bit |-> 2, bits |-> {2, 3},
       king |-> k, rook |-> r, king_from |-> E8, king_to |-> G8,
       rook_from |-> H8, rook_to |-> F8, between |-> {F8, G8}, crossed |-> {F8, G8}],
      [side |-> BLACK, castle |-> "q", bit |-> 3, bits |-> {2, 3},
       king |-> k, rook |-> r, king_from |-> E8, king_to |-> C8,
       rook_from |-> A8, rook_to |-> D8, between |-> {B8, C8, D8}, crossed |-> {C8, D8}] }

\* The side to move holds the right of the castle c, is not in check, and the
\* squares between king and rook are empty and those the king crosses
\* unattacked.
CastleAllowed(st, c) ==
    /\ st.side_to_move = c.side
    /\ c.bit \in st.castling_rights
    /\ ~AttackedBy(st, c.king_from, opponent_color(c.side))
    /\ \A s \in c.between : st.mailbox[s] = EMPTY
    /\ \A s \in c.crossed : ~AttackedBy(st, s, opponent_color(c.side))

\* C11: in a state where the side to move holds a castling right, is not in
\* check, and the squares between king and rook are empty and the squares the
\* king crosses or lands on unattacked, generate_moves holds that castle move
\* (e1->g1, e1->c1, e8->g8, e8->c8); applying it puts the king on the g-file
\* (c-file) and the rook on the f-file (d-file), leaves the king's and the
\* rook's start squares empty, and clears both castling bits of that colour.
C11_CastleListedAndApplied ==
    \A c \in CastleCases :
        CastleAllowed(state, c) =>
            LET m     == Move(c.king_from, c.king_to, None, c.castle)
                after == make_move(state, m, FALSE)
            IN  /\ m \in SeqRange(legal_moves)
                /\ after.mailbox[c.king_to] = c.king
                /\ after.mailbox[c.rook_to] = c.rook
                /\ after.mailbox[c.king_from] = EMPTY
                /\ after.mailbox[c.rook_from] = EMPTY
                /\ after.bitboards[c.king] = {c.king_to}
                /\ c.rook_to \in after.bitboards[c.rook]
                /\ c.rook_from \notin after.bitboards[c.rook]
                /\ after.castling_rights = state.castling_rights \ c.bits

\* C11 witness: after a move of White, Black may castle queenside and the
\* move e8->c8 is listed.
C11_Witness ==
    /\ plies >= 1
    /\ \E c \in CastleCases : c.castle = "q" /\ CastleAllowed(state, c)
    /\ Move(E8, C8, None, "q") \in SeqRange(legal_moves)

\* C12: once the stored game's status is not 'ongoing', no /move, /ai_move
\* or /promote request changes the stored game state.
C12_FinishedGameNotChanged ==
    [][ ( /\ HasKey(session, "game_state")
          /\ session["game_state"].game_status # "ongoing"
          /\ request'.route \in {"move", "ai_move", "promote"} )
        => ( /\ HasKey(session', "game_state")
             /\ session'["game_state"] = session["game_state"] ) ]_vars

\* The same for /move and /ai_move alone, the two handlers that test the
\* status before anything else.
C12_FinishedGameNotChangedByMoves ==
    [][ ( /\ HasKey(session, "game_state")
          /\ session["game_state"].game_status # "ongoing"
          /\ request'.route \in {"move", "ai_move"} )
        => ( /\ response' = [success |-> FALSE]
             /\ session' = session ) ]_vars

\* C12 witness: /promote was requested on a checkmated stored game with a
\* pending promotion left in the session, and the stored game is another one.
C12_Witness ==
    /\ request.route = "promote"
    /\ response # Redirect
    /\ HasKey(session, "game_state")
    /\ \E sess \in FinishedSessions :
          /\ sess["game_state"].game_status = "checkmate"
          /\ session["game_state"].history # sess["game_state"].history
          /\ session["game_state"].mailbox[A8] = Q

\* C13: is_in_check on a state whose king bitboard for the side is empty
\* signals a fatal error and never returns a boolean: no request is answered
\* with a 'check' value for a stored game whose side to move has no king.
C13_NoCheckAnswerWithoutKing ==
    (HasKey(response, "check") /\ HasKey(session, "game_state")) =>
        LET st == session["game_state"]
        IN  st.bitboards[IF st.side_to_move = WHITE THEN K ELSE k] # {}

\* C13 witness: /promote has captured the black king on b8; is_in_check
\* returned True for Black, the answer carries 'check': True and the stored
\* game is a 'checkmate'.
C13_Witness ==
    /\ request.route = "promote"
    /\ HasKey(session, "game_state")
    /\ session["game_state"].bitboards[k] = {}
    /\ session["game_state"].side_to_move = BLACK
    /\ is_in_check(session["game_state"], BLACK) = TRUE
    /\ HasKey(response, "check")
    /\ response.check = TRUE
    /\ session["game_state"].game_status = "checkmate"

\* C14: a /move request whose (from, to) pair matches promotion moves of
\* generate_moves(stored state) answers that a promotion choice is required,
\* records the pending pair, and leaves the stored game, and every other key
\* of the session, as it was: no promotion piece is applied.
C14_PromotionIsAsked ==
    [][ ( /\ request'.route = "move"
          /\ \E m \in SeqRange(generate_moves(get_game_state(session).state)) :
                 /\ m.from = request'.args[1]
                 /\ m.to = request'.args[2]
                 /\ m.promote # None )
        => ( /\ response' = [success |-> TRUE, promotion |-> TRUE,
                             from |-> request'.args[1], to |-> request'.args[2]]
             /\ HasKey(session, "game_state")
             /\ DOMAIN session' = DOMAIN session \cup {"pending_promotion"}
             /\ session'["pending_promotion"] =
                    [from |-> request'.args[1], to |-> request'.args[2]]
             /\ \A key \in DOMAIN session \ {"pending_promotion"} :
                    session'[key] = session[key] ) ]_vars

\* C14 witness: b7xa8 was requested on the stored game of LinePromoWhite; the
\* pair is pending, the pawn is still on b7 and the rook on a8.
C14_Witness ==
    /\ request = [route |-> "move", args |-> <<49, 56>>]
    /\ HasKey(response, "promotion")
    /\ HasKey(session, "pending_promotion")
    /\ session["pending_promotion"] = [from |-> 49, to |-> 56]
    /\ session["game_state"] = PlayLine(create_initial_state, LinePromoWhite)
    /\ session["game_state"].mailbox[49] = P
    /\ session["game_state"].mailbox[56] = r

\* C15: after make_move(s, m), halfmove is 0 whenever m is a capture (an
\* en-passant capture included) or any pawn move, and s.halfmove + 1 after
\* every other move.
C15_HalfmoveClock ==
    plies >= 1 =>
        LET pawn    == IsPawn(prev.mailbox[last_move.from])
            capture == \/ prev.mailbox[last_move.to] # EMPTY
                       \/ pawn /\ last_move.to = prev.en_passant
        IN  state.halfmove = (IF capture \/ pawn THEN 0 ELSE prev.halfmove + 1)

\* C15 witness: a pawn has moved without capturing and the clock went up.
C15_Witness ==
    /\ plies >= 1
    /\ IsPawn(prev.mailbox[last_move.from])
    /\ prev.mailbox[last_move.to] = EMPTY
    /\ last_move.to # prev.en_passant
    /\ state.halfmove = prev.halfmove + 1

\* The clock after an en-passant capture: it went up as well.
C15_EnPassantKeepsClock ==
    (plies >= 1 /\ IsPawn(prev.mailbox[last_move.from])
                /\ last_move.to = prev.en_passant)
    => state.halfmove = prev.halfmove + 1

\* The moves moves[i] and moves[j] of st are in order by piece type, then by
\* source square, then by destination square.
InOrder(st, moves, i, j) ==
    LET a  == moves[i]
        b2 == moves[j]
        ta == st.mailbox[a.from]
        tb == st.mailbox[b2.from]
    IN  \/ ta < tb
        \/ ta = tb /\ a.from < b2.from
        \/ ta = tb /\ a.from = b2.from /\ a.to <= b2.to

\* C16: generate_moves(state) returns its whole result, castling moves
\* included, sorted by piece type, then by source square, then by destination
\* square, and returns the same sequence when called again on the state.
C16_MovesSorted ==
    /\ \A i, j \in 1..Len(legal_moves) :
           i < j => InOrder(state, legal_moves, i, j)
    /\ generate_moves(state) = legal_moves

\* C16 witness: the king's moves e1-d1 and e1-g1 (castle) are listed before
\* its move e1-c1 (castle).
C16_Witness ==
    \E h, i, j \in 1..Len(legal_moves) :
        /\ h < i /\ i < j
        /\ legal_moves[h] = Move(E1, D1, None, NoCastle)
        /\ legal_moves[i] = Move(E1, G1, None, "K")
        /\ legal_moves[j] = Move(E1, C1, None, "Q")

\* The moves that are no castle are sorted, the castle moves follow them,
\* kingside first, and a second call returns the same sequence.
C16_CastlesLast ==
    /\ \A i, j \in 1..Len(legal_moves) :
           i < j =>
              \/ legal_moves[j].castle # NoCastle
                 /\ (legal_moves[i].castle # NoCastle
                        => legal_moves[i].to > legal_moves[j].to)
              \/ /\ legal_moves[i].castle = NoCastle
                 /\ legal_moves[j].castle = NoCastle
                 /\ InOrder(state, legal_moves, i, j)
    /\ generate_moves(state) = legal_moves

\* The depth-limited minimax value of st without pruning: the leaves are
\* scored as the search scores them, every move of every inner node is
\* searched.
RECURSIVE FullMinimax(_, _, _)
FullMinimax(st, depth, maximizing_player) ==
    IF depth = 0 \/ st.game_status # "ongoing" THEN evaluate(st)
    ELSE
    Assigned(generate_moves(st), LAMBDA moves :
        IF moves = <<>>
        THEN (IF is_in_check(st, st.side_to_move)
              THEN (IF maximizing_player
                    THEN -MateScore + (10 - depth)
                    ELSE MateScore - (10 - depth))
              ELSE 0)
        ELSE
        Assigned({ FullMinimax(make_move(st, moves[i], FALSE), depth - 1,
                               ~maximizing_player) : i \in 1..Len(moves) },
                 LAMBDA values :
            IF maximizing_player
            THEN CHOOSE v \in values : \A w \in values : v >= w
            ELSE CHOOSE v \in values : \A w \in values : v <= w))

\* The unpruned values of the root moves of a call of depth `depth`.
RootValues(st, moves, depth) ==
    [i \in 1..Len(moves) |->
        FullMinimax(make_move(st, moves[i], FALSE), depth - 1,
                    st.side_to_move # WHITE)]

\* C17: for every depth >= 1 and every order the shuffle leaves, the move
\* get_best_move returns has an unpruned depth-limited minimax value equal to
\* the optimum over all legal root moves for the side to move.
C17_BestMoveIsOptimal ==
    (ai # NoCall /\ ai.best_move # NoMove) =>
        Assigned(RootValues(state, legal_moves, ai.depth), LAMBDA values :
            \E i \in 1..Len(legal_moves) :
                /\ legal_moves[i] = ai.best_move
                /\ \A j \in 1..Len(legal_moves) :
                       IF state.side_to_move = WHITE
                       THEN values[i] >= values[j]
                       ELSE values[i] <= values[j])

\* C17 witness: a search of depth 2 or more whose root moves differ in value
\* and whose shuffle put a move that is not best first.
C17_Witness ==
    /\ ai # NoCall
    /\ ai.depth >= 2
    /\ ai.best_move # NoMove
    /\ ai.best_move # ai.moves[1]
    /\ Assigned(RootValues(state, ai.moves, ai.depth), LAMBDA values :
           \E j \in 1..Len(ai.moves) : values[j] # values[1])

\* The root moves of st that give checkmate.
MatingMoves(st, moves) ==
    { i \in 1..Len(moves) :
        make_move(st, moves[i], FALSE).game_status = "checkmate" }

\* The score the search gives a position met with `depth` plies left.
SearchScore(st, depth) ==
    minimax(st, depth, -Inf, Inf, st.side_to_move = WHITE)

\* C18: a checkmate reached in fewer plies from the root, that is with more
\* plies of the search left, scores strictly better for the mating side than
\* the same checkmate reached in more plies.
C18_ShorterMateScoresBetter ==
    (ai # NoCall /\ ai.depth >= 2) =>
        \A i \in MatingMoves(state, legal_moves) :
            Assigned(make_move(state, legal_moves[i], FALSE), LAMBDA mated :
                \A near \in 1..(ai.depth - 1) : \A far \in 0..(near - 1) :
                    IF mated.side_to_move = BLACK
                    THEN SearchScore(mated, near) > SearchScore(mated, far)
                    ELSE SearchScore(mated, near) < SearchScore(mated, far))

\* C18 witness: a search of depth 2 or more from a position with a mate in
\* one, which the search returns.
C18_Witness ==
    /\ ai # NoCall
    /\ ai.depth >= 2
    /\ ai.best_move # NoMove
    /\ make_move(state, ai.best_move, FALSE).game_status = "checkmate"

\* What the code does instead of C18: a checkmate scores MateScore against
\* the mated side whatever the number of plies left.
C18_MateScoreIsFlat ==
    ai # NoCall =>
        \A i \in MatingMoves(state, legal_moves) :
            Assigned(make_move(state, legal_moves[i], FALSE), LAMBDA mated :
                \A depth \in 0..ai.depth :
                    SearchScore(mated, depth) =
                        (IF mated.side_to_move = WHITE
                         THEN -MateScore ELSE MateScore))

\* The pieces a pawn of `color` may promote to.
PromotionPieces(color) == IF color = WHITE THEN {Q, R, B, N} ELSE {q, r, b, n}

\* m is a move of a pawn of the side to move of st onto its last rank.
PawnToLastRank(st, m) ==
    \/ st.side_to_move = WHITE /\ st.mailbox[m.from] = P /\ m.to \div 8 = 7
    \/ st.side_to_move = BLACK /\ st.mailbox[m.from] = p /\ m.to \div 8 = 0

\* C19: every pawn move of generate_moves onto the mover's last rank carries
\* a queen, rook, bishop or knight of the mover's colour, all four variants
\* of each such (from, to) are listed, and no other move carries a promotion
\* piece; after make_move of one, the destination holds the chosen piece and
\* the pawn is gone.
C19_Promotions ==
    /\ \A i \in 1..Len(legal_moves) :
           LET m == legal_moves[i]
           IN  IF PawnToLastRank(state, m)
               THEN /\ m.promote \in PromotionPieces(state.side_to_move)
                    /\ \A piece \in PromotionPieces(state.side_to_move) :
                           \E j \in 1..Len(legal_moves) :
                               legal_moves[j] = [m EXCEPT !.promote = piece]
               ELSE m.promote = None
    /\ (plies >= 1 /\ last_move.promote # None) =>
           LET pawn == prev.mailbox[last_move.from]
           IN  /\ state.mailbox[last_move.to] = last_move.promote
               /\ last_move.to \in state.bitboards[last_move.promote]
               /\ state.mailbox[last_move.from] = EMPTY
               /\ state.bitboards[pawn] = prev.bitboards[pawn] \ {last_move.from}
               /\ \A piece \in 0..11 :
                      piece # last_move.promote
                      => last_move.to \notin state.bitboards[piece]

\* C19 witness: the black pawn on b2 has taken the rook on a1 and is a
\* knight there; the move list it came from held the four promotions on a1
\* and the four on c1.
C19_Witness ==
    /\ plies >= 1
    /\ prev.mailbox[last_move.from] = p
    /\ last_move.to = A1
    /\ last_move.promote = n
    /\ state.mailbox[A1] = n
    /\ Cardinality({ i \in 1..Len(generate_moves(prev)) :
                       generate_moves(prev)[i].promote # None }) = 8

\* The king whose move clears castling bit `bit`, and the rook corner of it.
KingOfBit(bit) == IF bit \in {0, 1} THEN K ELSE k

CornerOfBit(bit) == <<H1, A1, H8, A8>>[bit + 1]

\* C20: after make_move a castling bit is set exactly when it was set
\* before, the moved piece is not the king of the bit's colour and the move
\* neither leaves nor lands on the bit's rook corner: a king move clears the
\* two bits of its colour, a move from or onto h1, a1, h8 or a8 clears that
\* corner's bit, and every other bit stays as it was.
C20_CastlingRights ==
    plies >= 1 =>
        \A bit \in 0..3 :
            bit \in state.castling_rights
            <=> /\ bit \in prev.castling_rights
                /\ prev.mailbox[last_move.from] # KingOfBit(bit)
                /\ last_move.from # CornerOfBit(bit)
                /\ last_move.to # CornerOfBit(bit)

\* C20 witness: with both white rights held the rook on h1 has moved; the
\* kingside right is gone, the queenside right and Black's rights are kept.
C20_Witness ==
    /\ plies >= 1
    /\ prev.mailbox[H1] = R
    /\ last_move.from = H1
    /\ prev.castling_rights = {0, 1, 2, 3}
    /\ state.castling_rights = {1, 2, 3}

\* C20, a move onto a corner: a pawn has promoted on a rook's corner and
\* that corner's right is gone.
C20_CaptureOnCorner ==
    (plies >= 1 /\ last_move.promote # None
                /\ last_move.to \in {A1, A8}
                /\ prev.castling_rights \cap {1, 3} # {})
    => Cardinality(state.castling_rights) = Cardinality(prev.castling_rights) - 1

\* C21: generate_moves(create_initial_state()) returns exactly 20 moves: a
\* single and a double push of each of the 8 white pawns and 2 moves of each
\* knight, with exactly one move from e2 to e4; the initial state has White
\* to move, all four castling rights, no en-passant target, halfmove 0,
\* fullmove 1 and the status 'ongoing'.
C21_InitialMoves ==
    state = create_initial_state =>
        /\ Len(legal_moves) = 20
        /\ SeqRange(legal_moves) =
               { Move(sq, sq + 8, None, NoCastle) : sq \in 8..15 }
               \cup { Move(sq, sq + 16, None, NoCastle) : sq \in 8..15 }
               \cup { Move(B1, 16, None, NoCastle), Move(B1, 18, None, NoCastle),
                      Move(G1, 21, None, NoCastle), Move(G1, 23, None, NoCastle) }
        /\ Cardinality({ i \in 1..Len(legal_moves) :
                            legal_moves[i].from = 12 /\ legal_moves[i].to = 28 }) = 1
        /\ state.side_to_move = WHITE
        /\ state.castling_rights = {0, 1, 2, 3}
        /\ state.en_passant = -1
        /\ state.halfmove = 0
        /\ state.fullmove = 1
        /\ state.game_status = "ongoing"

\* C21 witness: the initial state, with its move list computed and e2e4 the
\* fifth pawn's double push in it.
C21_Witness ==
    /\ plies = 0
    /\ state = create_initial_state
    /\ legal_moves = generate_moves(create_initial_state)
    /\ \E i \in 1..Len(legal_moves) : legal_moves[i] = Move(12, 28, None, NoCastle)

\* The number of plies played to reach st: one position is recorded in
\* 'history' at the start and one after every move.
PliesPlayed(st) == Len(st.history) - 1

\* C22: every make_move flips side_to_move, fullmove goes up by exactly 1
\* when Black has just moved and stays when White has just moved; in every
\* reachable state the number of plies played is 2 * (fullmove - 1), plus 1
\* if Black is to move.
C22_SideAndFullmove ==
    /\ plies >= 1 =>
           /\ state.side_to_move = opponent_color(prev.side_to_move)
           /\ state.fullmove = (IF prev.side_to_move = BLACK
                                THEN prev.fullmove + 1 ELSE prev.fullmove)
    /\ PliesPlayed(state) =
           2 * (state.fullmove - 1) + (IF state.side_to_move = BLACK THEN 1 ELSE 0)

\* C22 witness: Black has just moved, fullmove went up and an even number of
\* plies, at least two, has been played.
C22_Witness ==
    /\ plies >= 1
    /\ prev.side_to_move = BLACK
    /\ state.fullmove = prev.fullmove + 1
    /\ PliesPlayed(state) = 2 * (state.fullmove - 1)
    /\ PliesPlayed(state) >= 2

\* How many pieces of the types in `types` st has.
CountOf(st, types) ==
    LET RECURSIVE Sum(_)
        Sum(todo) == IF todo = {} THEN 0
                     ELSE LET t == CHOOSE x \in todo : TRUE
                          IN  Cardinality(st.bitboards[t]) + Sum(todo \ {t})
    IN  Sum(types)

\* Only the two kings, or the kings and a single bishop or a single knight.
InsufficientMaterial(st) ==
    /\ CountOf(st, {P, R, Q, p, r, q}) = 0
    /\ CountOf(st, {N, B, n, b}) <= 1

\* The kings and a single rook.
KingAndRookOnly(st) ==
    /\ CountOf(st, {P, N, B, Q, p, n, b, q}) = 0
    /\ CountOf(st, {R, r}) = 1

\* C23: a position with only the two kings, or with king and a single bishop
\* or knight against a bare king, is reported as a draw (its status is
\* neither 'ongoing' nor a win), whereas king and rook against king is not
\* (play goes on while the side to move has a move).
C23_InsufficientMaterialIsDraw ==
    /\ InsufficientMaterial(state) => state.game_status \notin {"ongoing", "checkmate"}
    /\ (KingAndRookOnly(state) /\ legal_moves # <<>>) => state.game_status = "ongoing"

\* C23 witness: a king has just taken the last piece but the kings, play
\* goes on and the status text names the side to move.
C23_Witness ==
    /\ plies >= 1
    /\ CountOf(state, 0..11) = 2
    /\ prev.mailbox[last_move.to] # EMPTY
    /\ legal_moves # <<>>
    /\ state.game_status = "ongoing"
    /\ get_game_status_text(state) \in {"White to move", "Black to move"}

\* What the code reports instead of C23: whatever the material, the status
\* is 'ongoing' exactly when the side to move has a legal move.
C23_StatusIgnoresMaterial ==
    (plies >= 1 /\ (InsufficientMaterial(state) \/ KingAndRookOnly(state)))
    => (state.game_status = "ongoing" <=> legal_moves # <<>>)

\* The stored game went from st to new_state by make_move of a move that
\* generate_moves(st) lists.
ByGeneratedMove(st, new_state) ==
    Assigned(generate_moves(st), LAMBDA moves :
        \E i \in 1..Len(moves) : make_move(st, moves[i], FALSE) = new_state)

\* A request by one of `routes` has replaced the stored game.
GameReplaced(routes) ==
    /\ request'.route \in routes
    /\ HasKey(session', "game_state")
    /\ session'["game_state"] # get_game_state(session).state

\* C24: every move a request handler (/move, /ai_move, /promote) passes to
\* make_move is an element of generate_moves of the stored state it is
\* applied to, whatever the order of the requests.
C24_OnlyGeneratedMovesApplied ==
    [][ GameReplaced({"move", "ai_move", "promote"})
        => ByGeneratedMove(get_game_state(session).state, session'["game_state"]) ]_vars

\* C24 witness: /promote has been answered and in the stored game the side
\* that has just moved, White, is in check: no move of generate_moves leads
\* there.
C24_Witness ==
    /\ request.route = "promote"
    /\ HasKey(session, "game_state")
    /\ session["game_state"].side_to_move = BLACK
    /\ session["game_state"].bitboards[K] # {}
    /\ is_in_check(session["game_state"], WHITE)

\* The same for /move and /ai_move alone, which take their move from
\* generate_moves of the stored state.
C24_MovesAreGenerated ==
    [][ GameReplaced({"move", "ai_move"})
        => ByGeneratedMove(get_game_state(session).state, session'["game_state"]) ]_vars

\* mailbox and the twelve piece bitboards of st agree: a square holds piece
\* type t exactly when it is in bitboards[t], so no square is in two of them.
MailboxMatchesBitboards(st) ==
    /\ \A s \in Squares : \A t \in 0..11 :
           (st.mailbox[s] = t) <=> (s \in st.bitboards[t])
    /\ \A t1, t2 \in 0..11 :
           t1 # t2 => st.bitboards[t1] \cap st.bitboards[t2] = {}

\* C25: in every reachable state mailbox and the twelve piece bitboards
\* agree exactly: mailbox[s] = t iff bit s of bitboards[t] is set, and no
\* square is set in two piece bitboards, also after captures, promotions
\* with capture, en passant and castling.
C25_MailboxMatchesBitboards ==
    MailboxMatchesBitboards(state)

\* C25 witness: a pawn has promoted while taking a piece.
C25_Witness ==
    /\ plies >= 1
    /\ last_move.promote # None
    /\ prev.mailbox[last_move.to] # EMPTY
    /\ state.mailbox[last_move.to] = last_move.promote

\* The same for the game a session stores, the games /promote has written
\* included.
C25_StoredGameMatches ==
    HasKey(session, "game_state") => MailboxMatchesBitboards(session["game_state"])

\* C26: in every state reached by play from the initial position each
\* colour has exactly one king bit set, and no move returned by
\* generate_moves captures a king: is_in_check never meets an empty king
\* bitboard.
C26_OneKingEach ==
    /\ Cardinality(state.bitboards[K]) = 1
    /\ Cardinality(state.bitboards[k]) = 1
    /\ \A i \in 1..Len(legal_moves) :
           state.mailbox[legal_moves[i].to] \notin {K, k}

\* C26 witness: a capture has just given check; the side in check has
\* captures among its moves, both kings are on the board.
C26_Witness ==
    /\ plies >= 1
    /\ prev.mailbox[last_move.to] # EMPTY
    /\ is_in_check(state, state.side_to_move)
    /\ \E i \in 1..Len(legal_moves) : state.mailbox[legal_moves[i].to] # EMPTY
    /\ Cardinality(state.bitboards[K]) = 1
    /\ Cardinality(state.bitboards[k]) = 1

\* The rook that castles with castling bit `bit`.
RookOfBit(bit) == IF bit \in {0, 1} THEN R ELSE r

\* C27: in every reachable state a set castling bit implies that colour's
\* king stands on its home square (e1, e8) and a rook of that colour on the
\* bit's corner (h1, a1, h8, a8); so a generated castle move finds the rook
\* it relocates.
C27_RightsImplyKingAndRook ==
    /\ \A bit \in state.castling_rights :
           /\ state.mailbox[IF bit \in {0, 1} THEN E1 ELSE E8] = KingOfBit(bit)
           /\ state.mailbox[CornerOfBit(bit)] = RookOfBit(bit)
    /\ \A i \in 1..Len(legal_moves) :
           legal_moves[i].castle # NoCastle =>
               /\ state.mailbox[CastleRook(legal_moves[i].castle)[2]]
                      = CastleRook(legal_moves[i].castle)[1]
               /\ CastleRook(legal_moves[i].castle)[1]
                      = (IF state.side_to_move = WHITE THEN R ELSE r)

\* C27 witness: a rook has just been taken on its corner, a1, by a
\* promoting pawn; White's queenside right is gone with it and the kingside
\* right, with king and rook at home, is kept.
C27_Witness ==
    /\ plies >= 1
    /\ prev.mailbox[A1] = R
    /\ last_move.to = A1
    /\ 1 \in prev.castling_rights
    /\ state.castling_rights \cap {0, 1} = {0}

\* C28: in every reachable state with an en-passant target the target
\* square is empty; it lies on rank 3 when Black is to move and on rank 6
\* when White is to move; the square beyond it, where the double push
\* ended, holds a pawn of the side that has just moved; and the square
\* behind it, where the push began, is empty.
C28_EnPassantTargetShape ==
    state.en_passant # -1 =>
        LET ep    == state.en_passant
            white == state.side_to_move = BLACK
        IN  /\ ep \in Squares
            /\ state.mailbox[ep] = EMPTY
            /\ ep \div 8 = (IF white THEN 2 ELSE 5)
            /\ state.mailbox[IF white THEN ep + 8 ELSE ep - 8]
                   = (IF white THEN P ELSE p)
            /\ state.mailbox[IF white THEN ep - 8 ELSE ep + 8] = EMPTY

\* C28 witness: make_move has just pushed a black pawn two squares (d7d5),
\* the target is on rank 6 and a white pawn stands ready to take there.
C28_Witness ==
    /\ state.side_to_move = WHITE
    /\ state.en_passant # -1
    /\ state.en_passant \div 8 = 5
    /\ state.mailbox[state.en_passant - 8] = p
    /\ \E i \in 1..Len(legal_moves) :
           /\ legal_moves[i].to = state.en_passant
           /\ state.mailbox[legal_moves[i].from] = P

\* C29: make_move with test_only=True never calls generate_moves, so the
\* calls nest at most make_move -> generate_moves -> is_legal ->
\* make_move(test_only) and end there; the test-only result has the status
\* 'ongoing' and otherwise the position fields of the full result.
C29_TestOnlyEndsTheNesting ==
    /\ nesting_generate_moves(state, MaxNesting) <= 3
    /\ plies >= 1 =>
           /\ nesting_make_move(prev, last_move, FALSE, MaxNesting) <= 4
           /\ nesting_make_move(prev, last_move, TRUE, MaxNesting) = 1
           /\ make_move(prev, last_move, TRUE) =
                  [state EXCEPT !.game_status = "ongoing", !.history = <<>>]

\* C29 witness: the full make_move of a mating move has been made: its
\* calls nested four deep, it found no legal reply and set 'checkmate',
\* where the test-only call leaves 'ongoing'.
C29_Witness ==
    /\ plies >= 1
    /\ state.game_status = "checkmate"
    /\ make_move(prev, last_move, TRUE).game_status = "ongoing"
    /\ nesting_make_move(prev, last_move, FALSE, MaxNesting) = 4

\* C30: for every depth >= 0 the minimax calls of get_best_move(state, depth)
\* nest at most depth levels, and no call is given a negative depth.
C30_SearchIsDepthBounded ==
    ai # NoCall => /\ ai.minimax_depth >= 0
                   /\ ai.level <= ai.depth

\* C30 witness: get_best_move was called with depth 0; minimax has been
\* given the depth -1 and a state with moves, which it goes on to search.
C30_Witness ==
    /\ ai # NoCall
    /\ ai.depth = 0
    /\ ai.minimax_depth < 0
    /\ ~returns_evaluate(state, ai.minimax_depth)
    /\ legal_moves # <<>>

\* From a depth of 1 or more the calls are given depth - 1 down to 0 and
\* nest at most depth levels: the call at level depth returns the evaluation.
C30_PositiveDepthIsBounded ==
    (ai # NoCall /\ ai.depth >= 1) =>
        /\ ai.minimax_depth >= 0
        /\ ai.level <= ai.depth
        /\ ai.level = ai.depth => returns_evaluate(state, ai.minimax_depth)

\* From the depth 0 the depth argument is never 0: a call returns the
\* evaluation only when the game it is given has ended.
C30_DepthZeroRunsOn ==
    (ai # NoCall /\ ai.depth = 0) =>
        /\ ai.minimax_depth = -ai.level
        /\ returns_evaluate(state, ai.minimax_depth)
               <=> state.game_status # "ongoing"

\* C31: the state make_move returns shares no mutable object with its
\* input: bitboards, occupancies, mailbox, the history list and every
\* snapshot in it are other objects than the input's, and a write to a
\* snapshot of the input state is not seen in the returned state.
C31_ResultSharesNothing ==
    plies >= 1 =>
        /\ result_objects(prev, FALSE) \cap input_objects(prev) = {}
        /\ \A i \in 1..Len(prev.history), piece \in EMPTY..k :
               result_after_snapshot_write(prev, state, i, A1, piece) = state

\* C31 witness: a full make_move was made on a state with a history; the
\* first snapshot is in the input's history and in the result's.
C31_Witness ==
    /\ plies >= 1
    /\ prev.history # <<>>
    /\ Len(state.history) = Len(prev.history) + 1
    /\ state.history[1] = prev.history[1]

\* The four lists of the returned state and the snapshot appended to its
\* history are new objects: what the two states share is exactly the
\* snapshots of the input's history.
C31_ListsAreCopies ==
    plies >= 1 =>
        /\ result_objects(prev, FALSE) \cap input_objects(prev)
               = { InputSnapshot(i) : i \in 1..Len(prev.history) }
        /\ result_objects(prev, TRUE) \cap input_objects(prev) = {}
        /\ new_snapshot_obj \notin { new_mailbox_obj } \cup input_objects(prev)

\* C32: along the moves played from the initial state, the history of each
\* state is its predecessor's history with the new mailbox appended: it
\* starts with the initial mailbox, has one entry more than plies were
\* played, ends with the current mailbox, and keeps the earlier entries.
C32_HistoryGrowsByTheMailbox ==
    /\ state.history[1] = create_initial_state.mailbox
    /\ state.history[Len(state.history)] = state.mailbox
    /\ plies = 0 =>
           \E line \in Lines :
               /\ state = PlayLine(create_initial_state, line)
               /\ Len(state.history) = Len(line) + 1
    /\ plies >= 1 =>
           /\ Len(state.history) = Len(prev.history) + 1
           /\ SubSeq(state.history, 1, Len(prev.history)) = prev.history

\* C32 witness: a move was made on a game of several plies; the history has
\* grown by the new mailbox, which differs from the one before.
C32_Witness ==
    /\ plies >= 1
    /\ Len(prev.history) >= 3
    /\ state.history = Append(prev.history, state.mailbox)
    /\ state.mailbox # prev.mailbox

\* C33: the pawn test of is_square_attacked finds square s attacked by
\* colour c exactly when a pawn of c stands on a square t with s in
\* pawn_attacks[c][t]; in the table, t is in pawn_attacks[opposite(c)][s]
\* exactly when s is in pawn_attacks[c][t], and every entry is on the board,
\* one file aside and one rank ahead.
C33_PawnAttackSymmetry ==
    /\ attack.name = "pawn_attacks" =>
           /\ \A s \in Squares :
                  (s \in attack.result)
                      <=> (attack.square \in pawn_attacks(opponent_color(attack.color), s))
           /\ \A s \in attack.result :
                  /\ s \in Squares
                  /\ Abs((s % 8) - (attack.square % 8)) = 1
                  /\ (s \div 8) - (attack.square \div 8)
                         = IF attack.color = WHITE THEN 1 ELSE -1
    /\ attack.name = "is_square_attacked" =>
           (attack.by_pawn <=>
               \E t \in Squares :
                   /\ attack.state.mailbox[t] = (IF attack.by_color = WHITE THEN P ELSE p)
                   /\ attack.square \in pawn_attacks(attack.by_color, t))

\* C33 witness: is_square_attacked was asked about a square of the h-file
\* that a pawn attacks, and found the attack.
C33_Witness ==
    /\ attack.name = "is_square_attacked"
    /\ attack.square % 8 = 7
    /\ attack.by_pawn
    /\ attack.result

\* The squares of the ray from `square` in direction d: the j-th square out
\* while it is on the board and no square before it is occupied.
RaySquares(square, d, occupancy) ==
    { ((square \div 8) + j * d[1]) * 8 + (square % 8) + j * d[2] :
        j \in { x \in 1..7 :
                  /\ OnBoard((square \div 8) + x * d[1], (square % 8) + x * d[2])
                  /\ \A i \in 1..(x - 1) :
                         ((square \div 8) + i * d[1]) * 8 + (square % 8) + i * d[2]
                             \notin occupancy } }

RookSquares(square, occupancy) ==
    UNION { RaySquares(square, d, occupancy) :
              d \in { <<-1, 0>>, <<1, 0>>, <<0, -1>>, <<0, 1>> } }

BishopSquares(square, occupancy) ==
    UNION { RaySquares(square, d, occupancy) :
              d \in { <<-1, -1>>, <<-1, 1>>, <<1, -1>>, <<1, 1>> } }

\* C34: get_rook_attacks and get_bishop_attacks return, on each of the four
\* rays, the squares from the origin outward up to and including the first
\* occupied one or up to the edge, never the origin and nothing beyond a
\* blocker or around an edge; get_queen_attacks is the union of the two.
C34_SlidingAttacks ==
    /\ attack.name = "get_rook_attacks" =>
           attack.result = RookSquares(attack.square, attack.occupancy)
    /\ attack.name = "get_bishop_attacks" =>
           attack.result = BishopSquares(attack.square, attack.occupancy)
    /\ attack.name = "get_queen_attacks" =>
           attack.result = RookSquares(attack.square, attack.occupancy)
                               \cup BishopSquares(attack.square, attack.occupancy)
    /\ attack.name \in {"get_rook_attacks", "get_bishop_attacks", "get_queen_attacks"} =>
           /\ attack.square \notin attack.result
           /\ attack.result \subseteq Squares

\* C34 witness: the rook attacks from a4 with d4 and a8 occupied were asked
\* for: the result reaches d4 and not e4, a8 and a1, ten squares in all.
C34_Witness ==
    /\ attack.name = "get_rook_attacks"
    /\ attack.square = 24
    /\ attack.occupancy = {27, A8}
    /\ {27, A8, A1} \subseteq attack.result
    /\ 28 \notin attack.result
    /\ Cardinality(attack.result) = 10

\* C35: in every state reached by play no pawn of either colour stands on
\* rank 1 or rank 8, so the push targets get_pawn_moves computes, one step
\* ahead and two from the first rank, are squares of the board.
C35_NoPawnOnLastRanks ==
    /\ \A sq \in Squares :
           state.mailbox[sq] \in {P, p} => (sq \div 8) \in 1..6
    /\ state.bitboards[P] \cup state.bitboards[p] \subseteq 8..55
    /\ \A sq \in state.bitboards[P] :
           /\ sq + 8 \in Squares
           /\ (sq \div 8) = 1 => sq + 16 \in Squares
    /\ \A sq \in state.bitboards[p] :
           /\ sq - 8 \in Squares
           /\ (sq \div 8) = 6 => sq - 16 \in Squares

\* C35 witness: a pawn has moved to its last rank and the piece it was
\* promoted to stands there.
C35_Witness ==
    /\ plies >= 1
    /\ prev.mailbox[last_move.from] \in {P, p}
    /\ (last_move.to \div 8) \in {0, 7}
    /\ last_move.promote # None
    /\ state.mailbox[last_move.to] = last_move.promote
    /\ last_move.to \notin state.bitboards[P] \cup state.bitboards[p]

\* C36: evaluate returns 20000 when Black is checkmated, -20000 when White
\* is checkmated and 0 on stalemate, and a value strictly between -20000 and
\* 20000 for every other state reached.
C36_MateOutscoresMaterial ==
    /\ state.game_status = "checkmate" =>
           evaluate(state) = IF state.side_to_move = BLACK THEN 20000 ELSE -20000
    /\ state.game_status = "stalemate" => evaluate(state) = 0
    /\ state.game_status = "ongoing" =>
           -20000 < evaluate(state) /\ evaluate(state) < 20000

\* C36 witness: Black is checkmated with all the pieces but a pawn on the
\* board; the evaluation is 20000 and not the score of the pieces.
C36_Witness ==
    /\ state.game_status = "checkmate"
    /\ state.side_to_move = BLACK
    /\ is_in_check(state, BLACK)
    /\ evaluate(state) = 20000
    /\ evaluate_pieces_only(state) < 20000

\* The square on the same file with the ranks counted from the other side.
MirrorSquare(sq) == (7 - (sq \div 8)) * 8 + (sq % 8)

\* The piece of the other colour and the same type.
MirrorPiece(piece) ==
    IF piece = EMPTY THEN EMPTY ELSE IF piece <= K THEN piece + 6 ELSE piece - 6

MirrorMailbox(mailbox) == [sq \in Squares |-> MirrorPiece(mailbox[MirrorSquare(sq)])]

\* The state with the colours of all pieces exchanged, every square mirrored
\* and the other side to move.
Mirror(st) ==
    [st EXCEPT
       !.bitboards    = [t \in P..k |->
                            { MirrorSquare(sq) : sq \in st.bitboards[MirrorPiece(t)] }],
       !.occupancies  = [c \in {WHITE, BLACK, BOTH} |->
                            { MirrorSquare(sq) :
                                sq \in st.occupancies[IF c = BOTH THEN BOTH
                                                      ELSE opponent_color(c)] }],
       !.mailbox      = MirrorMailbox(st.mailbox),
       !.side_to_move = opponent_color(st.side_to_move),
       !.castling_rights = { (bit + 2) % 4 : bit \in st.castling_rights },
       !.en_passant   = IF st.en_passant = -1 THEN -1 ELSE MirrorSquare(st.en_passant),
       !.history      = [i \in 1..Len(st.history) |-> MirrorMailbox(st.history[i])]]

\* C37: evaluate of the colour mirror of a state is the negation of its
\* value on the state, and the initial position evaluates to 0.
C37_EvaluateAntisymmetric ==
    /\ evaluate(Mirror(state)) = -evaluate(state)
    /\ evaluate(create_initial_state) = 0

\* C37 witness: an ongoing game with unequal material and the kings on
\* squares that are not mirror images; its value is not 0 and the mirror's
\* is the negation.
C37_Witness ==
    /\ state.game_status = "ongoing"
    /\ evaluate(state) # 0
    /\ Mirror(state) # state
    /\ state.bitboards[k] # { MirrorSquare(sq) : sq \in state.bitboards[K] }
    /\ evaluate(Mirror(state)) = -evaluate(state)

\* C38: in every minimax call reached from get_best_move the maximizing
\* flag is true exactly when White is to move in the state the call is
\* given, at every level of the recursion.
C38_MaximizingIsWhiteToMove ==
    ai # NoCall => (ai.maximizing_player <=> state.side_to_move = WHITE)

\* C38 witness: get_best_move was called for White with depth 2 and the
\* second level of minimax is maximizing, with White to move again.
C38_Witness ==
    /\ ai # NoCall
    /\ ai.depth = 2
    /\ ai.level = 2
    /\ ai.maximizing_player
    /\ state.side_to_move = WHITE
    /\ prev.side_to_move = BLACK

====
